---------------------------- MODULE Spec2Model ----------------------------
(***************************************************************************)
(* Model of the stock tracker's forecast engine (src/src/lib/prediction.ts)*)
(* and of its technical indicators (src/unnamed/part_001).                 *)
(*                                                                         *)
(* A caller supplies a sequence of daily bars and runs predictStockPrices  *)
(* on it, on some JavaScript engine; the call either throws or returns a   *)
(* PredictionResult (specification Spec).  The functions of the library    *)
(* are also run on their own, on arguments `args` drawn from bounded sets  *)
(* (the specifications named Spec... further down).                        *)
(*                                                                         *)
(* The dashboard page (src/src/app/page.tsx) with its local storage        *)
(* (src/src/lib/storage.ts) and the mock data source is the specification  *)
(* SpecPage: the user opens and closes the page, selects and removes       *)
(* symbols, and the page's requests and timers complete in between.        *)
(*                                                                         *)
(* Numbers.  A JavaScript number is modelled as an extended rational       *)
(* <<n, d>>: d > 0 is the rational n/d in lowest terms, <<0, 0>> is NaN,   *)
(* <<1, 0>> is +Infinity and <<-1, 0>> is -Infinity.  Rounding of IEEE     *)
(* doubles and the sign of zero are not modelled: every finite result is   *)
(* exact (the operators cancel common factors before they multiply, which  *)
(* changes no value).  `undefined` and `null` are values of their own, and *)
(* an arithmetic operator coerces them as JavaScript does (ToNumber).      *)
(***************************************************************************)
EXTENDS Integers, Sequences, FiniteSets, TLC

VARIABLES stockData, outcome, engine, args, page, localStorage, now

vars == <<stockData, outcome, engine, args, page, localStorage, now>>

---------------------------------------------------------------------------
(* JavaScript values *)

NaN == <<0, 0>>
Undefined == <<"undefined">>
Null == <<"null">>

AbsInt(i) == IF i < 0 THEN -i ELSE i
SignInt(i) == IF i < 0 THEN -1 ELSE IF i > 0 THEN 1 ELSE 0

RECURSIVE Gcd(_, _)
Gcd(a, b) == IF b = 0 THEN a ELSE Gcd(b, a % b)

\* n/d, d # 0, in lowest terms with a positive denominator
Rat(n, d) ==
    LET g == Gcd(AbsInt(n), AbsInt(d))
    IN  IF d < 0 THEN <<(-n) \div g, (-d) \div g>> ELSE <<n \div g, d \div g>>

Num(i) == <<i, 1>>

\* ToNumber: undefined -> NaN, null -> +0, a number is itself
ToNumber(v) == IF v = Undefined THEN NaN ELSE IF v = Null THEN Num(0) ELSE v

IsNaN(a) == a = NaN
IsFiniteNum(a) == Len(a) = 2 /\ a[2] > 0

Neg(v) == LET a == ToNumber(v) IN <<-a[1], a[2]>>

\* a + b
Add(v, w) ==
    LET a == ToNumber(v)
        b == ToNumber(w)
    IN  IF IsNaN(a) \/ IsNaN(b) THEN NaN
        ELSE IF a[2] = 0 THEN (IF b[2] = 0 /\ b # a THEN NaN ELSE a)
        ELSE IF b[2] = 0 THEN b
        ELSE LET g == Gcd(a[2], b[2])
             IN  Rat(a[1] * (b[2] \div g) + b[1] * (a[2] \div g), (a[2] \div g) * b[2])

\* a - b
Sub(v, w) == Add(v, Neg(w))

\* a * b
Mul(v, w) ==
    LET a == ToNumber(v)
        b == ToNumber(w)
    IN  IF IsNaN(a) \/ IsNaN(b) THEN NaN
        ELSE IF a[2] = 0 \/ b[2] = 0
             THEN (IF a[1] = 0 \/ b[1] = 0 THEN NaN
                   ELSE <<SignInt(a[1]) * SignInt(b[1]), 0>>)
        ELSE LET g == Gcd(AbsInt(a[1]), b[2])
                 h == Gcd(AbsInt(b[1]), a[2])
             IN  Rat((a[1] \div g) * (b[1] \div h), (a[2] \div h) * (b[2] \div g))

\* a / b: x/0 is +-Infinity, 0/0 and Infinity/Infinity are NaN
Div(v, w) ==
    LET a == ToNumber(v)
        b == ToNumber(w)
    IN  IF IsNaN(a) \/ IsNaN(b) THEN NaN
        ELSE IF b[2] = 0 THEN (IF a[2] = 0 THEN NaN ELSE Num(0))
        ELSE IF b[1] = 0
             THEN (IF a[1] = 0 THEN NaN ELSE <<SignInt(a[1]), 0>>)
        ELSE IF a[2] = 0 THEN <<a[1] * SignInt(b[1]), 0>>
        ELSE LET g == Gcd(AbsInt(a[1]), AbsInt(b[1]))
                 h == Gcd(a[2], b[2])
             IN  Rat((a[1] \div g) * (b[2] \div h), (a[2] \div h) * (b[1] \div g))

\* a < b; every comparison with NaN is false
Less(v, w) ==
    LET a == ToNumber(v)
        b == ToNumber(w)
    IN  IF IsNaN(a) \/ IsNaN(b) THEN FALSE
        ELSE IF a[2] = 0 THEN a[1] < 0 /\ b # a
        ELSE IF b[2] = 0 THEN b[1] > 0
        ELSE Add(a, <<-b[1], b[2]>>)[1] < 0

\* a > b
Greater(v, w) == Less(w, v)

\* Math.min, Math.max: NaN when either argument is NaN
MathMin(a, b) == IF IsNaN(a) \/ IsNaN(b) THEN NaN ELSE IF Less(b, a) THEN b ELSE a
MathMax(a, b) == IF IsNaN(a) \/ IsNaN(b) THEN NaN ELSE IF Less(a, b) THEN b ELSE a

\* arr[i] with a zero-based index: undefined outside the array
At(arr, i) == IF i >= 0 /\ i < Len(arr) THEN arr[i + 1] ELSE Undefined

\* arr.slice(from, to) with zero-based, non-negative bounds
Slice(arr, from, to) == SubSeq(arr, from + 1, IF to > Len(arr) THEN Len(arr) ELSE to)

\* arr.slice(-k): the last k elements; slice(-0) is slice(0), the whole array
SliceLast(arr, k) ==
    IF k = 0 \/ k >= Len(arr) THEN arr ELSE SubSeq(arr, Len(arr) - k + 1, Len(arr))

\* Array.from({ length: n }, (_, j) => j + 1)
Positions(n) == [j \in 1..n |-> Num(j)]

\* Array(n).fill(null)
NullPad(n) == [j \in 1..n |-> Null]

---------------------------------------------------------------------------
(* Calls.  JavaScript passes arguments by value: each is evaluated once,   *)
(* before the body runs.  Call1..Call5 bind the evaluated arguments.       *)

Call1(F(_), a) == CHOOSE r \in { F(v) : v \in {a} } : TRUE
Call2(F(_, _), a, b) == CHOOSE r \in { F(v[1], v[2]) : v \in {<<a, b>>} } : TRUE
Call3(F(_, _, _), a, b, c) ==
    CHOOSE r \in { F(v[1], v[2], v[3]) : v \in {<<a, b, c>>} } : TRUE
Call4(F(_, _, _, _), a, b, c, d) ==
    CHOOSE r \in { F(v[1], v[2], v[3], v[4]) : v \in {<<a, b, c, d>>} } : TRUE
Call5(F(_, _, _, _, _), a, b, c, d, e) ==
    CHOOSE r \in { F(v[1], v[2], v[3], v[4], v[5]) : v \in {<<a, b, c, d, e>>} } : TRUE

---------------------------------------------------------------------------
(* prediction.ts *)

window == 5
trainingWindow == 20
recentDays == 10
MinDataPoints == 30

RECURSIVE SumRange(_, _, _, _)
\* the loop `for (i = lo; i <= hi; i++) acc += f[i]`: acc + f[lo] + ... + f[hi],
\* added left to right (the range is halved only to keep the evaluation
\* shallow; the additions and their order are those of the loop)
SumRange(f, lo, hi, acc) ==
    IF lo > hi THEN acc
    ELSE IF lo = hi THEN Add(acc, f[lo])
    ELSE LET mid == (lo + hi) \div 2
         IN  Call4(SumRange, f, mid + 1, hi, Call4(SumRange, f, lo, mid, acc))

Sum(f) == Call4(SumRange, f, 1, Len(f), Num(0))

linearRegressionBody(xValues, yValues, predict) ==
    LET n == Len(xValues)
        sumX == Sum(xValues)
        sumY == Sum([i \in 1..n |-> At(yValues, i - 1)])
        sumXY == Sum([i \in 1..n |-> Mul(xValues[i], At(yValues, i - 1))])
        sumXX == Sum([i \in 1..n |-> Mul(xValues[i], xValues[i])])
        slope == Div(Sub(Mul(Num(n), sumXY), Mul(sumX, sumY)),
                     Sub(Mul(Num(n), sumXX), Mul(sumX, sumX)))
        intercept == Div(Sub(sumY, Mul(slope, sumX)), Num(n))
    IN  Add(Mul(slope, predict), intercept)

linearRegression(xValues, yValues, predict) ==
    Call3(linearRegressionBody, xValues, yValues, predict)

\* one iteration of the loop of arimaInspiredPrediction: the next difference
\* and the next value, computed before anything is pushed
ArimaNext(i, differenced, data) ==
    LET xValues == Positions(window)
        startIdx == Len(differenced) - window
        yValues == Slice(differenced, startIdx, Len(differenced))
        nextDiff == linearRegression(xValues, yValues, Num(window + 1))
        nextVal == Add(At(data, Len(data) - 1 + i), nextDiff)
    IN  [nextDiff |-> nextDiff, nextVal |-> nextVal]

RECURSIVE ArimaLoop(_, _, _, _, _)
\* the loop from iteration i on; `data` is the caller's array, which every
\* iteration appends to, so data.length has grown by i when iteration i
\* reads data[data.length - 1 + i]
ArimaLoop(i, daysToPredict, differenced, data, predictions) ==
    IF i >= daysToPredict THEN [predictions |-> predictions, data |-> data]
    ELSE Call1(LAMBDA nx :
                 Call5(ArimaLoop, i + 1, daysToPredict,
                       Append(differenced, nx.nextDiff),
                       Append(data, nx.nextVal),
                       Append(predictions, nx.nextVal)),
               ArimaNext(i, differenced, data))

arimaInspiredPredictionBody(data, daysToPredict) ==
    LET differenced == [i \in 1..(Len(data) - 1) |-> Sub(data[i + 1], data[i])]
    IN  Call5(ArimaLoop, 0, daysToPredict, differenced, data, <<>>)

\* returns [predictions, data]: the predictions, and the argument array as
\* the call leaves it
arimaInspiredPrediction(data, daysToPredict) ==
    Call2(arimaInspiredPredictionBody, data, daysToPredict)

\* the comparator (a, b) => a - b as the sort reads it (SortCompare): a sorts
\* before b only when a - b < 0; a NaN result counts as +0
SortsBefore(a, b) == Less(Sub(a, b), Num(0))

RECURSIVE InsertAt(_, _, _, _)
\* binary insertion: the number of elements of `sorted` among
\* sorted[left+1..right] and before that stay in front of x
InsertAt(sorted, x, left, right) ==
    IF left >= right THEN left
    ELSE LET mid == left + ((right - left) \div 2)
         IN  IF SortsBefore(x, sorted[mid + 1])
             THEN InsertAt(sorted, x, left, mid)
             ELSE InsertAt(sorted, x, mid + 1, right)

Insert(sorted, x) ==
    LET k == Call4(InsertAt, sorted, x, 0, Len(sorted))
    IN  SubSeq(sorted, 1, k) \o <<x>> \o SubSeq(sorted, k + 1, Len(sorted))

RECURSIVE SortRange(_, _, _, _)
\* the loop `for (i = lo; i <= hi; i++) insert arr[i] into sorted` (the range
\* is halved only to keep the evaluation shallow)
SortRange(arr, lo, hi, sorted) ==
    IF lo > hi THEN sorted
    ELSE IF lo = hi THEN Call2(Insert, sorted, arr[lo])
    ELSE LET mid == (lo + hi) \div 2
         IN  Call4(SortRange, arr, mid + 1, hi, Call4(SortRange, arr, lo, mid, sorted))

\* one step of a stable merge of l and r: the head of r is taken only when it
\* sorts before the head of l
MergeStep(st) ==
    LET takeRight == /\ st.j <= Len(st.r)
                     /\ (st.i > Len(st.l) \/ SortsBefore(st.r[st.j], st.l[st.i]))
    IN  IF takeRight
        THEN [st EXCEPT !.j = st.j + 1, !.out = Append(st.out, st.r[st.j])]
        ELSE [st EXCEPT !.i = st.i + 1, !.out = Append(st.out, st.l[st.i])]

RECURSIVE MergeSteps(_, _)
\* k steps of the merge loop (k is halved only to keep the evaluation shallow)
MergeSteps(st, k) ==
    IF k = 0 THEN st
    ELSE IF k = 1 THEN MergeStep(st)
    ELSE Call2(MergeSteps, Call2(MergeSteps, st, k \div 2), k - (k \div 2))

Merge(l, r) ==
    Call2(MergeSteps, [l |-> l, r |-> r, i |-> 1, j |-> 1, out |-> <<>>], Len(l) + Len(r)).out

RECURSIVE MergeSort(_)
MergeSort(arr) ==
    IF Len(arr) <= 1 THEN arr
    ELSE LET mid == Len(arr) \div 2
         IN  Call2(Merge, Call1(MergeSort, SubSeq(arr, 1, mid)),
                          Call1(MergeSort, SubSeq(arr, mid + 1, Len(arr))))

\* The engine the program runs on.  [...data].sort((a, b) => a - b) is the
\* engine's stable sort, which asks only the comparator: a binary insertion
\* sort (V8 for arrays shorter than 64) or a merge sort (SpiderMonkey,
\* JavaScriptCore).  They agree on numbers; with NaN in the array the
\* comparator is inconsistent and ECMAScript leaves the order to the engine.
Engines == {"binaryInsertion", "merge"}

SortAscending(data) ==
    IF engine = "merge" THEN Call1(MergeSort, data)
    ELSE Call4(SortRange, data, 1, Len(data), <<>>)

\* findSupportResistance with the two quartile indices exchanged
findSupportResistanceSwapped(data) ==
    LET sorted == SortAscending(data)
        q1Index == (3 * Len(sorted)) \div 4
        q3Index == Len(sorted) \div 4
    IN  Call1(LAMBDA s : [support |-> At(s, q1Index), resistance |-> At(s, q3Index)],
              sorted)

findSupportResistanceBody(data) ==
    LET sorted == SortAscending(data)
        q1Index == Len(sorted) \div 4
        q3Index == (3 * Len(sorted)) \div 4
    IN  Call1(LAMBDA s : [support |-> At(s, q1Index), resistance |-> At(s, q3Index)],
              sorted)

findSupportResistance(data) == Call1(findSupportResistanceBody, data)

determineTrendBody(data) ==
    LET recent == SliceLast(data, recentDays)
        startPrice == At(recent, 0)
        endPrice == At(recent, Len(recent) - 1)
        percentChange == Mul(Div(Sub(endPrice, startPrice), startPrice), Num(100))
    IN  IF Greater(percentChange, Num(3)) THEN "bullish"
        ELSE IF Less(percentChange, Num(-3)) THEN "bearish"
        ELSE "neutral"

determineTrend(data) == Call1(determineTrendBody, data)

\* calculateConfidence with the guard `actual.length < 9`
calculateConfidenceLowerGuard(actual, predicted) ==
    IF Len(predicted) = 0 \/ Len(actual) < 9 THEN Rat(1, 2)
    ELSE LET sq == [i \in 1..Len(predicted) |->
                      LET error == Sub(predicted[i], At(actual, i - 1))
                      IN  Mul(error, error)]
             mse == Div(Sum(sq), Num(Len(predicted)))
             last == Mul(At(actual, Len(actual) - 1), Rat(1, 5))
             maxMSE == Mul(last, last)
         IN  MathMax(Num(0), MathMin(Num(1), Sub(Num(1), Div(mse, maxMSE))))

calculateConfidenceBody(actual, predicted) ==
    IF Len(predicted) = 0 \/ Len(actual) < 10 THEN Rat(1, 2)
    ELSE LET sq == [i \in 1..Len(predicted) |->
                      LET error == Sub(predicted[i], At(actual, i - 1))
                      IN  Mul(error, error)]
             mse == Div(Sum(sq), Num(Len(predicted)))
             last == Mul(At(actual, Len(actual) - 1), Rat(1, 5))
             maxMSE == Mul(last, last)
         IN  MathMax(Num(0), MathMin(Num(1), Sub(Num(1), Div(mse, maxMSE))))

calculateConfidence(actual, predicted) == Call2(calculateConfidenceBody, actual, predicted)

\* the back-fit with a training slice that ends at the bar it predicts
BackFitLookingAhead(closePrices) ==
    NullPad(trainingWindow) \o
    [k \in 1..(Len(closePrices) - trainingWindow) |->
        linearRegression(Positions(trainingWindow),
                         Slice(closePrices, k, k + trainingWindow),
                         Num(trainingWindow + 1))]

\* the historical back-fit loop of predictStockPrices and its padding
BackFitBody(closePrices) ==
    NullPad(trainingWindow) \o
    [k \in 1..(Len(closePrices) - trainingWindow) |->
        \* the loop index is i = trainingWindow + k - 1
        linearRegression(Positions(trainingWindow),
                         Slice(closePrices, k - 1, k - 1 + trainingWindow),
                         Num(trainingWindow + 1))]

BackFit(closePrices) == Call1(BackFitBody, closePrices)

SelectNonNull(arr) == SelectSeq(arr, LAMBDA p : p # Null)

\* predictStockPrices from the second arimaInspiredPrediction call on.
\* closePrices is one array throughout the function: both
\* arimaInspiredPrediction calls append to it, and every later use (and the
\* `actual` field of the result) sees what they left in it.  The sma20,
\* ema12, ema26, rsi and macd values the function also computes are never
\* read and their helpers change nothing.
predictFinish(dates, predictedValues, day, week) ==
    LET closePrices == week.data
        sr == findSupportResistance(closePrices)
        trend == determineTrend(closePrices)
        nonNullPredicted == SelectNonNull(predictedValues)
        actual == SliceLast(closePrices, Len(nonNullPredicted))
    IN  [dates |-> dates,
         actual |-> closePrices,
         predicted |-> predictedValues,
         nextDayPrediction |-> At(day.predictions, 0),
         nextWeekPrediction |-> At(week.predictions, 6),
         confidence |-> calculateConfidence(actual, nonNullPredicted),
         trend |-> trend,
         supportLevel |-> sr.support,
         resistanceLevel |-> sr.resistance]

predictWeek(dates, predictedValues, day) ==
    Call1(LAMBDA week : predictFinish(dates, predictedValues, day, week),
          arimaInspiredPrediction(day.data, 7))

predictResult(data) ==
    LET closePrices == [i \in 1..Len(data) |-> data[i].close]
        dates == [i \in 1..Len(data) |-> data[i].date]
    IN  Call3(predictWeek, dates, BackFit(closePrices),
              arimaInspiredPrediction(closePrices, 1))

Idle == [status |-> "idle"]
Threw(msg) == [status |-> "threw", message |-> msg]
Returned(v) == [status |-> "returned", value |-> v]

\* predictStockPrices with the guard `length <= 30`
\* The arrays of a call that returned `result`, as the call leaves them.
\* closePrices is the array stockData.map(item => item.close) built, a new
\* one: the appends of arimaInspiredPrediction go to it (it is the `actual`
\* of the result), and nothing in the function assigns to stockData or to a
\* bar of it.
predictArraysShared(items, result) ==
    [stockData |-> items \o SubSeq(result.actual, Len(items) + 1, Len(result.actual)),
     closePrices |-> result.actual]

predictArrays(items, result) ==
    [stockData |-> items, closePrices |-> result.actual]

\* the caller's stockData after a call that ended in `out`; the guard throws
\* before anything is written
predictStockPricesLeaves(sd, out) ==
    IF out.status = "returned"
    THEN [sd EXCEPT !.items = predictArrays(sd.items, out.value).stockData]
    ELSE sd

predictStockPricesStrictGuard(sd) ==
    IF sd.isNull \/ Len(sd.items) <= MinDataPoints
    THEN Threw("Insufficient data for prediction. Need at least 30 data points.")
    ELSE Returned(Call1(predictResult, sd.items))

\* stockData is [isNull |-> BOOLEAN, items |-> sequence of bars]
predictStockPrices(sd) ==
    IF sd.isNull \/ Len(sd.items) < MinDataPoints
    THEN Threw("Insufficient data for prediction. Need at least 30 data points.")
    ELSE Returned(Call1(predictResult, sd.items))

---------------------------------------------------------------------------
(* The caller: bar sequences handed to the engine *)

MaxBars == 32
TailLen == 2

Min2(a, b) == IF a < b THEN a ELSE b
Max2(a, b) == IF a > b THEN a ELSE b

Bar(i, c) == [date |-> i, close |-> Num(c)]

\* n daily closes: from 100 the price moves by s1 a day up to day 15 and by s2
\* a day after it; the last TailLen closes are moved off that line by `off`.
\* Every close is positive.
Closes(n, s1, s2, off) ==
    [i \in 1..n |->
        100 + s1 * Min2(i - 1, 14) + s2 * Max2(i - 15, 0)
            + (IF i > n - TailLen /\ n >= TailLen THEN off[i - (n - TailLen)] ELSE 0)]

Steps == -1..1
Offsets == [1..TailLen -> {-1, 0, 1}]
Lengths == {0} \cup ((MinDataPoints - 2)..MaxBars)

BarsOf(closes) == [isNull |-> FALSE, items |-> [i \in 1..Len(closes) |-> Bar(i, closes[i])]]

\* 40 closes rising from 100 to 139 by 1 a day
RampCloses == [i \in 1..40 |-> 99 + i]

Inputs ==
    { BarsOf(Closes(n, s1, s2, off)) : n \in Lengths, s1 \in Steps, s2 \in Steps, off \in Offsets }
    \cup { BarsOf(RampCloses), [isNull |-> TRUE, items |-> <<>>] }

---------------------------------------------------------------------------
(* State machine *)

\* no library function is being called on its own
NoArgs == [fn |-> "none"]

\* the library is run outside the dashboard page: no page is open, nothing
\* is in local storage and the clock stands
NoPage == [mounted |-> FALSE]
NoStorage == [length |-> 0]
NoBrowser == page = NoPage /\ localStorage = NoStorage /\ now = 0

Init ==
    /\ stockData \in Inputs
    /\ engine \in Engines
    /\ outcome = Idle
    /\ args = NoArgs
    /\ NoBrowser

\* the caller runs predictStockPrices(stockData)
Predict ==
    /\ outcome.status = "idle"
    /\ outcome' = predictStockPrices(stockData)
    /\ stockData' = predictStockPricesLeaves(stockData, outcome')
    /\ UNCHANGED <<engine, args, page, localStorage, now>>

Next == Predict

Spec == Init /\ [][Next]_vars

---------------------------------------------------------------------------
(* What the claims read *)

N == Len(stockData.items)
InputCloses == [i \in 1..N |-> stockData.items[i].close]
HasResult == outcome.status = "returned"
Result == outcome.value
IsRamp == InputCloses = [i \in 1..40 |-> Num(99 + i)]

\* a <= b as JavaScript compares: false when either side is NaN
Leq(a, b) == ~IsNaN(a) /\ ~IsNaN(b) /\ ~Less(b, a)

---------------------------------------------------------------------------
(* C1 *)

RECURSIVE ForecastRun(_, _, _)
\* `steps` more steps of the forward forecast: the next difference is the
\* regression of the latest 5 differences against 1..5 evaluated at 6, the
\* next price is the previous reconstructed price plus that difference
ForecastRun(prices, diffs, steps) ==
    IF steps = 0 THEN prices
    ELSE Call1(LAMBDA d : Call3(ForecastRun,
                                Append(prices, Add(prices[Len(prices)], d)),
                                Append(diffs, d), steps - 1),
               linearRegression(Positions(5),
                                SubSeq(diffs, Len(diffs) - 4, Len(diffs)), Num(6)))

\* the price `steps` days ahead of the input closes
StepsAhead(closes, steps) ==
    LET diffs == [i \in 1..(Len(closes) - 1) |-> Sub(closes[i + 1], closes[i])]
        run == Call3(ForecastRun, closes, diffs, steps)
    IN  run[Len(closes) + steps]

\* C1: for every input of at least 30 bars, nextWeekPrediction is a defined
\* number, the 7th value of a 7-step run started from the original closes
C1_WeekIsSeventhStep ==
    HasResult =>
        /\ IsFiniteNum(Result.nextWeekPrediction)
        /\ Result.nextWeekPrediction = StepsAhead(InputCloses, 7)

---------------------------------------------------------------------------
(* C2 *)

\* C2: for every input of at least 30 bars, the confidence is a defined
\* number in the closed interval [0, 1]
C2_ConfidenceInUnitInterval ==
    HasResult =>
        /\ IsFiniteNum(Result.confidence)
        /\ Leq(Num(0), Result.confidence)
        /\ Leq(Result.confidence, Num(1))

---------------------------------------------------------------------------
(* C3 *)

\* the trend of n input closes: the percent change from the first of the
\* last 10 input closes to the latest input close, against +3 and -3
InputTrend(closes) ==
    LET startPrice == closes[Len(closes) - 9]
        endPrice == closes[Len(closes)]
        percentChange == Mul(Div(Sub(endPrice, startPrice), startPrice), Num(100))
    IN  IF Less(Num(3), percentChange) THEN "bullish"
        ELSE IF Less(percentChange, Num(-3)) THEN "bearish"
        ELSE "neutral"

\* C3: the trend is bullish, bearish or neutral by the percent change between
\* two closes of the input bars
C3_TrendFromInputCloses ==
    HasResult => Result.trend = InputTrend(InputCloses)

---------------------------------------------------------------------------
(* C4 *)

\* C4: actual has exactly one entry per input bar (as many as dates) and
\* actual[i] is the close of bar i
C4_ActualEchoesInput ==
    HasResult =>
        /\ Len(Result.dates) = N
        /\ Len(Result.actual) = Len(Result.dates)
        /\ \A i \in 1..N : Result.actual[i] = stockData.items[i].close

---------------------------------------------------------------------------
(* C5 *)

\* C5: with fewer than 30 bars (or no bars) the call throws the
\* insufficient-data error and returns no result; with 30 bars or more it
\* returns a result and does not throw
C5_ThrowsBelowThirtyBars ==
    outcome.status # "idle" =>
        IF stockData.isNull \/ N < 30
        THEN outcome = Threw("Insufficient data for prediction. Need at least 30 data points.")
        ELSE HasResult

C5_ReturnsAtThirtyBars == ~stockData.isNull /\ N = 30 /\ HasResult

---------------------------------------------------------------------------
(* C6 *)

\* the confidence the back-fit earns against the input closes: each back-fit
\* value at index i (20 <= i < n, zero-based) against the input close at i
InputConfidence(closes, predicted) ==
    LET n == Len(closes)
        sq == [k \in 1..(n - 20) |->
                 LET error == Sub(predicted[20 + k], closes[20 + k])
                 IN  Mul(error, error)]
        mse == Div(Sum(sq), Num(n - 20))
        ref == Mul(Mul(Rat(1, 5), closes[n]), Mul(Rat(1, 5), closes[n]))
        raw == Sub(Num(1), Div(mse, ref))
    IN  IF Less(raw, Num(0)) THEN Num(0) ELSE IF Less(Num(1), raw) THEN Num(1) ELSE raw

\* C6: confidence = clamp(1 - mse/(0.2*lastClose)^2, 0, 1), mse taken over
\* the indices 20..n-1 of the input closes, lastClose the last input close
C6_ConfidenceFormula ==
    HasResult => Result.confidence = InputConfidence(InputCloses, Result.predicted)

---------------------------------------------------------------------------
(* C7 *)

\* C7: supportLevel and resistanceLevel are the elements at indices
\* floor(n*0.25) and floor(n*0.75) of the n input closes sorted ascending
C7_QuartilesOfInputCloses ==
    HasResult =>
        LET sorted == SortAscending(InputCloses)
        IN  /\ Result.supportLevel = sorted[(N \div 4) + 1]
            /\ Result.resistanceLevel = sorted[((3 * N) \div 4) + 1]

---------------------------------------------------------------------------
(* C8 *)

\* C8: for every input of at least 30 bars, supportLevel <= resistanceLevel
C8_SupportAtMostResistance ==
    HasResult => Leq(Result.supportLevel, Result.resistanceLevel)

C8_SupportBelowResistance ==
    HasResult /\ N >= 30 /\ Less(Result.supportLevel, Result.resistanceLevel)

---------------------------------------------------------------------------
(* C9 *)

\* C9: for 40 closes rising from 100 to 139 by 1, trend is bullish and
\* nextDayPrediction is above the last close, 139
C9_RampIsBullish ==
    (HasResult /\ IsRamp) =>
        /\ Result.trend = "bullish"
        /\ Less(Num(139), Result.nextDayPrediction)

---------------------------------------------------------------------------
(* C10 *)

\* the least-squares line through (1, y[1]) .. (20, y[20]) at position 21.
\* With xbar = 21/2 and Sxx = 665 the line at x is
\* ybar + (x - xbar) * SUM (k - xbar) * y[k] / Sxx, which at x = 21 gives
\* y[k] the weight 1/20 + (21/2) * (k - 21/2) / 665 = (3k - 22) / 190.
LeastSquaresAt21(y) ==
    Div(Sum([k \in 1..20 |-> Mul(Num(3 * k - 22), y[k])]), Num(190))

\* C10: predicted has one entry per input bar, its first 20 entries are the
\* placeholder, and entry i (20 <= i < n, zero-based) is the least-squares
\* line through closes[i-20..i-1] at positions 1..20, evaluated at 21
C10_BackFitIsLeastSquares ==
    HasResult =>
        /\ Len(Result.predicted) = N
        /\ \A j \in 1..20 : Result.predicted[j] = Null
        /\ \A j \in 21..N :
              Result.predicted[j] = LeastSquaresAt21(SubSeq(InputCloses, j - 20, j - 1))

C10_BackFitOfUnevenCloses ==
    /\ HasResult
    /\ N > 30
    /\ Result.predicted[N] # Result.predicted[N - 1]
    /\ Result.predicted[N][2] > 1

---------------------------------------------------------------------------
(* calculateConfidence on its own *)

MaxActual == 11

\* n actual values: 10, 11, 12, 10, 11, 12, ... with `last` as the latest
ActualValues(n, last) ==
    [i \in 1..n |-> IF i = n THEN Num(last) ELSE Num(10 + ((i - 1) % 3))]

\* m back-fit values, each off the actual value of its position by `err`
\* (off 10 where there is no actual value)
PredictedValues(m, actual, err) ==
    [i \in 1..m |-> IF i <= Len(actual) THEN Add(actual[i], Num(err)) ELSE Num(10 + err)]

\* the call of one pair: m back-fit values against n actual values
ConfidenceCall(n, last, m, err) ==
    [fn |-> "calculateConfidence",
     actual |-> ActualValues(n, last),
     predicted |-> PredictedValues(m, ActualValues(n, last), err)]

\* no back-fit value, one, or one per actual value
ConfidenceArgs ==
    { ConfidenceCall(n, last, Min2(m, n), err) :
         n \in 0..MaxActual, last \in {0, 10, 13}, m \in {0, 1, MaxActual + 1},
         err \in {-1, 0, 3} }

InitConfidence ==
    /\ args \in ConfidenceArgs
    /\ NoBrowser
    /\ stockData = [isNull |-> TRUE, items |-> <<>>]
    /\ engine = "merge"
    /\ outcome = Idle

\* the caller runs calculateConfidence(actual, predicted)
Confidence ==
    /\ outcome.status = "idle"
    /\ outcome' = Returned(calculateConfidence(args.actual, args.predicted))
    /\ UNCHANGED <<stockData, engine, args, page, localStorage, now>>

NextConfidence == Confidence

SpecConfidence == InitConfidence /\ [][NextConfidence]_vars

---------------------------------------------------------------------------
(* C11 *)

\* 1 - mse / (0.2 * latest actual)^2 held to [0, 1], mse the mean squared
\* difference of the back-fit values and the actual values of their positions
ConfidenceByFormula(actual, predicted) ==
    LET sq == [i \in 1..Len(predicted) |->
                 Mul(Sub(predicted[i], At(actual, i - 1)),
                     Sub(predicted[i], At(actual, i - 1)))]
        mse == Div(Sum(sq), Num(Len(predicted)))
        scale == Mul(Rat(1, 5), actual[Len(actual)])
    IN  MathMax(Num(0), MathMin(Num(1), Sub(Num(1), Div(mse, Mul(scale, scale)))))

\* C11: calculateConfidence returns exactly 0.5 when fewer than 10 actual
\* values are available or there are no back-fit values, and in every other
\* case returns the value of the formula, not the default
C11_DefaultBelowTenActuals ==
    HasResult =>
        IF Len(args.actual) < 10 \/ Len(args.predicted) = 0
        THEN Result = Rat(1, 2)
        ELSE Result = ConfidenceByFormula(args.actual, args.predicted)

C11_NineActualsTakeDefault ==
    /\ HasResult
    /\ Len(args.actual) = 9
    /\ Len(args.predicted) = 9
    /\ Result = Rat(1, 2)
    /\ ConfidenceByFormula(args.actual, args.predicted) = Num(1)

---------------------------------------------------------------------------
(* technical-indicators (src/unnamed/part_001, from line 174)              *)
(*                                                                         *)
(* The undefined sentinel of an indicator is NaN.  A loop that carries a   *)
(* value from one pass to the next is a ...Loop operator over the passes   *)
(* lo..hi; the range is halved only to keep the evaluation shallow, the    *)
(* passes and their order are those of the loop.                           *)

\* calculateSMA whose window at i starts one entry late: data[i-period+2..i+1]
calculateSMAShifted(data, period) ==
    [i \in 1..Len(data) |->
        IF i - 1 < period - 1 THEN NaN
        ELSE Div(Sum([j \in 1..period |-> At(data, i - (j - 1))]), Num(period))]

calculateSMABody(data, period) ==
    [i \in 1..Len(data) |->
        IF i - 1 < period - 1 THEN NaN
        ELSE Div(Sum([j \in 1..period |-> At(data, (i - 1) - (j - 1))]), Num(period))]

calculateSMA(data, period) == Call2(calculateSMABody, data, period)

\* EMAStep with the multiplier 2 / period
EMAStepWideMultiplier(data, period, i, st) ==
    IF i < period - 1 THEN [st EXCEPT !.result = Append(@, NaN)]
    ELSE IF i = period - 1 THEN [st EXCEPT !.result = Append(@, st.ema)]
    ELSE LET multiplier == Div(Num(2), Num(period))
             ema == Add(Mul(At(data, i), multiplier),
                        Mul(st.ema, Sub(Num(1), multiplier)))
         IN  [ema |-> ema, result |-> Append(st.result, ema)]

\* one pass of the loop of calculateEMA at the zero-based index i;
\* st is [ema, result]
EMAStep(data, period, i, st) ==
    IF i < period - 1 THEN [st EXCEPT !.result = Append(@, NaN)]
    ELSE IF i = period - 1 THEN [st EXCEPT !.result = Append(@, st.ema)]
    ELSE LET multiplier == Div(Num(2), Num(period + 1))
             ema == Add(Mul(At(data, i), multiplier),
                        Mul(st.ema, Sub(Num(1), multiplier)))
         IN  [ema |-> ema, result |-> Append(st.result, ema)]

RECURSIVE EMALoop(_, _, _, _, _)
EMALoop(data, period, lo, hi, st) ==
    IF lo > hi THEN st
    ELSE IF lo = hi THEN Call4(EMAStep, data, period, lo, st)
    ELSE LET mid == (lo + hi) \div 2
         IN  Call5(EMALoop, data, period, mid + 1, hi,
                   Call5(EMALoop, data, period, lo, mid, st))

calculateEMABody(data, period) ==
    LET ema == Div(Sum(Slice(data, 0, period)), Num(period))
    IN  Call5(EMALoop, data, period, 0, Len(data) - 1, [ema |-> ema, result |-> <<>>]).result

calculateEMA(data, period) == Call2(calculateEMABody, data, period)

\* the global isNaN(v): true of every value whose ToNumber is NaN
GlobalIsNaN(v) == IsNaN(ToNumber(v))

\* the histogram loop of calculateMACD
MACDResult(data, macdLine, paddedSignalLine) ==
    [line |-> macdLine,
     signal |-> paddedSignalLine,
     histogram |->
        [i \in 1..Len(data) |->
            IF GlobalIsNaN(At(macdLine, i - 1)) \/ GlobalIsNaN(At(paddedSignalLine, i - 1))
            THEN NaN
            ELSE Sub(macdLine[i], paddedSignalLine[i])]]

\* macdLine.findIndex(value => !isNaN(value)): zero-based, -1 when none
FirstValidIndex(macdLine) ==
    IF \A i \in 1..Len(macdLine) : GlobalIsNaN(macdLine[i]) THEN -1
    ELSE (CHOOSE i \in 1..Len(macdLine) :
            /\ ~GlobalIsNaN(macdLine[i])
            /\ \A j \in 1..(i - 1) : GlobalIsNaN(macdLine[j])) - 1

\* MACDPad that writes signalLine from index 0 on
MACDPadFromZero(data, macdLine, validMacdLine, signalLine) ==
    Call3(MACDResult, data, macdLine,
          [j \in 1..Max2(Len(data), Len(signalLine)) |->
              IF j <= Len(signalLine) THEN signalLine[j] ELSE NaN])

\* Array(data.length).fill(NaN) with signalLine written from signalStartIndex
\* on; a write past the end lengthens the array and leaves holes (undefined)
MACDPad(data, macdLine, validMacdLine, signalLine) ==
    LET startIndex == FirstValidIndex(macdLine)
        signalStartIndex == startIndex + Len(validMacdLine) - Len(signalLine)
        length == IF Len(signalLine) = 0 THEN Len(data)
                  ELSE Max2(Len(data), signalStartIndex + Len(signalLine))
    IN  Call3(MACDResult, data, macdLine,
              [j \in 1..length |->
                  IF j - 1 >= signalStartIndex /\ j - 1 < signalStartIndex + Len(signalLine)
                  THEN signalLine[j - signalStartIndex]
                  ELSE IF j <= Len(data) THEN NaN ELSE Undefined])

MACDSignal(data, macdLine, validMacdLine, signalPeriod) ==
    Call4(MACDPad, data, macdLine, validMacdLine, calculateEMA(validMacdLine, signalPeriod))

MACDLine(data, fastEMA, slowEMA, signalPeriod) ==
    LET macdLine == [i \in 1..Len(data) |->
                        IF GlobalIsNaN(At(fastEMA, i - 1)) \/ GlobalIsNaN(At(slowEMA, i - 1))
                        THEN NaN
                        ELSE Sub(fastEMA[i], slowEMA[i])]
    IN  Call4(MACDSignal, data, macdLine,
              SelectSeq(macdLine, LAMBDA value : ~GlobalIsNaN(value)), signalPeriod)

calculateMACD(data, fastPeriod, slowPeriod, signalPeriod) ==
    Call4(MACDLine, data, calculateEMA(data, fastPeriod), calculateEMA(data, slowPeriod),
          signalPeriod)

\* Math.abs
MathAbs(v) == LET a == ToNumber(v) IN <<AbsInt(a[1]), a[2]>>

\* a || b on numbers: b when a is 0 or NaN
OrElse(a, b) == IF a = Num(0) \/ IsNaN(a) THEN b ELSE a

\* 100 - 100 / (1 + avgGain / avgLoss) with avgLoss left as it is
RSIValueUnguarded(avgGain, avgLoss) ==
    Sub(Num(100), Div(Num(100), Add(Num(1), Div(avgGain, avgLoss))))

\* 100 - (100 / (1 + avgGain / (avgLoss || 0.001)))
RSIValue(avgGain, avgLoss) ==
    Sub(Num(100), Div(Num(100), Add(Num(1), Div(avgGain, OrElse(avgLoss, Rat(1, 1000))))))

\* one pass of the second loop of calculateRSI at the zero-based index i;
\* moves is [gains, losses], st is [avgGain, avgLoss, result]
RSIStep(moves, period, i, st) ==
    LET avgGain == Div(Add(Mul(st.avgGain, Num(period - 1)), At(moves.gains, i - 1)),
                       Num(period))
        avgLoss == Div(Add(Mul(st.avgLoss, Num(period - 1)), At(moves.losses, i - 1)),
                       Num(period))
    IN  [avgGain |-> avgGain, avgLoss |-> avgLoss,
         result |-> Append(st.result, RSIValue(avgGain, avgLoss))]

RECURSIVE RSILoop(_, _, _, _, _)
RSILoop(moves, period, lo, hi, st) ==
    IF lo > hi THEN st
    ELSE IF lo = hi THEN Call4(RSIStep, moves, period, lo, st)
    ELSE LET mid == (lo + hi) \div 2
         IN  Call5(RSILoop, moves, period, mid + 1, hi,
                   Call5(RSILoop, moves, period, lo, mid, st))

\* calculateRSI from the first average gain and loss on
RSIFromAverages(data, moves, period, avg) ==
    Call5(RSILoop, moves, period, period + 1, Len(data) - 1,
          [avgGain |-> avg.gain, avgLoss |-> avg.loss,
           result |-> Append([i \in 1..period |-> NaN], RSIValue(avg.gain, avg.loss))]).result

\* calculateRSI from the gains and losses on
RSIFromMoves(data, moves, period) ==
    Call4(RSIFromAverages, data, moves, period,
          [gain |-> Div(Sum(Slice(moves.gains, 0, period)), Num(period)),
           loss |-> Div(Sum(Slice(moves.losses, 0, period)), Num(period))])

calculateRSIBody(data, period) ==
    Call3(RSIFromMoves, data,
          [gains |-> [i \in 1..(Len(data) - 1) |->
                        LET change == Sub(data[i + 1], data[i])
                        IN  IF Greater(change, Num(0)) THEN change ELSE Num(0)],
           losses |-> [i \in 1..(Len(data) - 1) |->
                        LET change == Sub(data[i + 1], data[i])
                        IN  IF Less(change, Num(0)) THEN MathAbs(change) ELSE Num(0)]],
          period)

calculateRSI(data, period) == Call2(calculateRSIBody, data, period)

RECURSIVE ISqrtIn(_, _, _)
\* the largest r in lo..hi with r * r <= m
ISqrtIn(m, lo, hi) ==
    IF lo >= hi THEN lo
    ELSE LET mid == (lo + hi + 1) \div 2
         IN  IF mid * mid <= m THEN ISqrtIn(m, mid, hi) ELSE ISqrtIn(m, lo, mid - 1)

ISqrt(m) == ISqrtIn(m, 0, Min2(m, 46340))

\* Math.sqrt: exact for the square of a rational; any other root is
\* irrational and is rounded down to a multiple of 1/100 (a double rounds it
\* to 53 bits).  NaN for a negative argument.
MathSqrt(v) ==
    LET a == ToNumber(v)
    IN  IF IsNaN(a) \/ a[1] < 0 THEN NaN
        ELSE IF a[2] = 0 THEN a
        ELSE IF ISqrt(a[1]) * ISqrt(a[1]) = a[1] /\ ISqrt(a[2]) * ISqrt(a[2]) = a[2]
             THEN Rat(ISqrt(a[1]), ISqrt(a[2]))
        ELSE Rat(ISqrt((a[1] * 10000) \div a[2]), 100)

\* the standard deviation calculateBollingerBands takes at the zero-based
\* index i: the loop over j stops at `period` or below index 0
BollingerSd(data, period, middle, i) ==
    MathSqrt(Div(Sum([j \in 1..Min2(period, i + 1) |->
                        Mul(Sub(At(data, i - (j - 1)), At(middle, i)),
                            Sub(At(data, i - (j - 1)), At(middle, i)))]),
                 Num(period)))

\* BollingerFromMiddle with the deviation taken off the upper band and added
\* to the lower one
BollingerFromMiddleSwapped(data, period, stdDev, middle) ==
    [upper |-> [i \in 1..Len(data) |->
                  IF GlobalIsNaN(At(middle, i - 1)) THEN NaN
                  ELSE Sub(middle[i], Mul(stdDev, BollingerSd(data, period, middle, i - 1)))],
     middle |-> middle,
     lower |-> [i \in 1..Len(data) |->
                  IF GlobalIsNaN(At(middle, i - 1)) THEN NaN
                  ELSE Add(middle[i], Mul(stdDev, BollingerSd(data, period, middle, i - 1)))]]

BollingerFromMiddle(data, period, stdDev, middle) ==
    [upper |-> [i \in 1..Len(data) |->
                  IF GlobalIsNaN(At(middle, i - 1)) THEN NaN
                  ELSE Add(middle[i], Mul(stdDev, BollingerSd(data, period, middle, i - 1)))],
     middle |-> middle,
     lower |-> [i \in 1..Len(data) |->
                  IF GlobalIsNaN(At(middle, i - 1)) THEN NaN
                  ELSE Sub(middle[i], Mul(stdDev, BollingerSd(data, period, middle, i - 1)))]]

calculateBollingerBands(data, period, stdDev) ==
    Call4(BollingerFromMiddle, data, period, stdDev, calculateSMA(data, period))

\* one pass of the loop of calculateSmoothedAverage at the zero-based index i
SmoothedStep(data, period, i, result) ==
    Append(result,
           Div(Add(Mul(result[Len(result)], Num(period - 1)), At(data, i)), Num(period)))

RECURSIVE SmoothedLoop(_, _, _, _, _)
SmoothedLoop(data, period, lo, hi, result) ==
    IF lo > hi THEN result
    ELSE IF lo = hi THEN Call4(SmoothedStep, data, period, lo, result)
    ELSE LET mid == (lo + hi) \div 2
         IN  Call5(SmoothedLoop, data, period, mid + 1, hi,
                   Call5(SmoothedLoop, data, period, lo, mid, result))

calculateSmoothedAverageBody(data, period) ==
    Call5(SmoothedLoop, data, period, period, Len(data) - 1,
          <<Div(Sum(Slice(data, 0, period)), Num(period))>>)

calculateSmoothedAverage(data, period) == Call2(calculateSmoothedAverageBody, data, period)

\* Math.max of three
MathMax3(a, b, c) == MathMax(MathMax(ToNumber(a), ToNumber(b)), ToNumber(c))

\* the first loop of calculateADX: true range and directional movement of
\* the bars 1..n-1 (zero-based)
ADXMoves(highs, lows, closes) ==
    [tr |-> [i \in 1..(Len(closes) - 1) |->
                MathMax3(Sub(At(highs, i), At(lows, i)),
                         MathAbs(Sub(At(highs, i), At(closes, i - 1))),
                         MathAbs(Sub(At(lows, i), At(closes, i - 1))))],
     plusDM |-> [i \in 1..(Len(closes) - 1) |->
                LET upMove == Sub(At(highs, i), At(highs, i - 1))
                    downMove == Sub(At(lows, i - 1), At(lows, i))
                IN  IF Greater(upMove, downMove) /\ Greater(upMove, Num(0))
                    THEN upMove ELSE Num(0)],
     minusDM |-> [i \in 1..(Len(closes) - 1) |->
                LET upMove == Sub(At(highs, i), At(highs, i - 1))
                    downMove == Sub(At(lows, i - 1), At(lows, i))
                IN  IF Greater(downMove, upMove) /\ Greater(downMove, Num(0))
                    THEN downMove ELSE Num(0)]]

\* (smoothedDM[i] / smoothedTR[i]) * 100 for every i
DirectionalIndex(smoothedDM, smoothedTR) ==
    [i \in 1..Len(smoothedTR) |->
        Mul(Div(At(smoothedDM, i - 1), smoothedTR[i]), Num(100))]

\* (|plusDI[i] - minusDI[i]| / (plusDI[i] + minusDI[i])) * 100 for every i
DirectionalMovementIndex(plusDI, minusDI) ==
    [i \in 1..Len(plusDI) |->
        Mul(Div(MathAbs(Sub(plusDI[i], At(minusDI, i - 1))),
                Add(plusDI[i], At(minusDI, i - 1))),
            Num(100))]

\* one pass of the last loop of calculateADX at the zero-based index i of dx;
\* st is [adx, result]
ADXStep(dx, period, i, st) ==
    LET adx == Div(Add(Mul(st.adx, Num(period - 1)), At(dx, i)), Num(period))
    IN  [adx |-> adx, result |-> Append(st.result, adx)]

RECURSIVE ADXLoop(_, _, _, _, _)
ADXLoop(dx, period, lo, hi, st) ==
    IF lo > hi THEN st
    ELSE IF lo = hi THEN Call4(ADXStep, dx, period, lo, st)
    ELSE LET mid == (lo + hi) \div 2
         IN  Call5(ADXLoop, dx, period, mid + 1, hi,
                   Call5(ADXLoop, dx, period, lo, mid, st))

\* calculateADX from the first adx on: the padding, the first value, the rest
ADXFromFirst(dx, period, adx) ==
    Call5(ADXLoop, dx, period, period, Len(dx) - 1,
          [adx |-> adx,
           result |-> Append([i \in 1..(period * 2 - 1) |-> NaN], adx)]).result

ADXFromDX(dx, period) ==
    Call3(ADXFromFirst, dx, period, Div(Sum(Slice(dx, 0, period)), Num(period)))

ADXFromDI(plusDI, minusDI, period) ==
    Call2(ADXFromDX, DirectionalMovementIndex(plusDI, minusDI), period)

ADXFromSmoothed(smoothedTR, smoothedPlusDM, smoothedMinusDM, period) ==
    Call3(ADXFromDI, DirectionalIndex(smoothedPlusDM, smoothedTR),
          DirectionalIndex(smoothedMinusDM, smoothedTR), period)

ADXFromMoves(moves, period) ==
    Call4(ADXFromSmoothed, calculateSmoothedAverage(moves.tr, period),
          calculateSmoothedAverage(moves.plusDM, period),
          calculateSmoothedAverage(moves.minusDM, period), period)

calculateADX(highs, lows, closes, period) ==
    Call2(ADXFromMoves, ADXMoves(highs, lows, closes), period)

\* SARStart that seeds the SAR at the extreme point itself
SARStartAtExtreme(bars, initialAF) ==
    LET isUptrend == Greater(At(bars.closes, 1), At(bars.closes, 0))
    IN  [isUptrend |-> isUptrend,
         ep |-> IF isUptrend THEN At(bars.highs, 0) ELSE At(bars.lows, 0),
         sar |-> IF isUptrend THEN At(bars.highs, 0) ELSE At(bars.lows, 0),
         af |-> initialAF,
         result |-> <<NaN>>]

\* SARStart that takes a first close below the second for a falling start
SARStartFalling(bars, initialAF) ==
    LET isUptrend == Less(At(bars.closes, 1), At(bars.closes, 0))
    IN  [isUptrend |-> isUptrend,
         ep |-> IF isUptrend THEN At(bars.highs, 0) ELSE At(bars.lows, 0),
         sar |-> IF isUptrend THEN At(bars.lows, 0) ELSE At(bars.highs, 0),
         af |-> initialAF,
         result |-> <<NaN>>]

\* calculateParabolicSAR before its loop; bars is [highs, lows, closes] and
\* the loop variables are [isUptrend, ep, sar, af, result]
SARStart(bars, initialAF) ==
    LET isUptrend == Greater(At(bars.closes, 1), At(bars.closes, 0))
    IN  [isUptrend |-> isUptrend,
         ep |-> IF isUptrend THEN At(bars.highs, 0) ELSE At(bars.lows, 0),
         sar |-> IF isUptrend THEN At(bars.lows, 0) ELSE At(bars.highs, 0),
         af |-> initialAF,
         result |-> <<NaN>>]

\* SARReverse that adds the initial step without holding it to the maximum
SARReverseUncapped(bars, af, i, st, sar) ==
    IF \/ st.isUptrend /\ Less(At(bars.lows, i), sar)
       \/ ~st.isUptrend /\ Greater(At(bars.highs, i), sar)
    THEN [isUptrend |-> ~st.isUptrend,
          sar |-> IF ~st.isUptrend THEN At(bars.lows, i) ELSE At(bars.highs, i),
          ep |-> IF ~st.isUptrend THEN At(bars.highs, i) ELSE At(bars.lows, i),
          af |-> af.initial,
          result |-> Append(st.result, sar)]
    ELSE IF st.isUptrend /\ Greater(At(bars.highs, i), st.ep)
    THEN [isUptrend |-> st.isUptrend, sar |-> sar, ep |-> At(bars.highs, i),
          af |-> Add(st.af, af.initial), result |-> Append(st.result, sar)]
    ELSE IF ~st.isUptrend /\ Less(At(bars.lows, i), st.ep)
    THEN [isUptrend |-> st.isUptrend, sar |-> sar, ep |-> At(bars.lows, i),
          af |-> Add(st.af, af.initial), result |-> Append(st.result, sar)]
    ELSE [st EXCEPT !.sar = sar, !.result = Append(@, sar)]

\* the pass of the loop at bar i from `result.push(sar)` on: the reversal
\* check and the update of the extreme point and the acceleration factor;
\* af is [initial, max]
SARReverse(bars, af, i, st, sar) ==
    IF \/ st.isUptrend /\ Less(At(bars.lows, i), sar)
       \/ ~st.isUptrend /\ Greater(At(bars.highs, i), sar)
    THEN [isUptrend |-> ~st.isUptrend,
          sar |-> IF ~st.isUptrend THEN At(bars.lows, i) ELSE At(bars.highs, i),
          ep |-> IF ~st.isUptrend THEN At(bars.highs, i) ELSE At(bars.lows, i),
          af |-> af.initial,
          result |-> Append(st.result, sar)]
    ELSE IF st.isUptrend /\ Greater(At(bars.highs, i), st.ep)
    THEN [isUptrend |-> st.isUptrend,
          sar |-> sar,
          ep |-> At(bars.highs, i),
          af |-> MathMin(Add(st.af, af.initial), af.max),
          result |-> Append(st.result, sar)]
    ELSE IF ~st.isUptrend /\ Less(At(bars.lows, i), st.ep)
    THEN [isUptrend |-> st.isUptrend,
          sar |-> sar,
          ep |-> At(bars.lows, i),
          af |-> MathMin(Add(st.af, af.initial), af.max),
          result |-> Append(st.result, sar)]
    ELSE [st EXCEPT !.sar = sar, !.result = Append(@, sar)]

\* Math.min / Math.max of sar and the low / high of bar j
SARClamp(bars, isUptrend, sar, j) ==
    IF isUptrend THEN MathMin(sar, ToNumber(At(bars.lows, j)))
    ELSE MathMax(sar, ToNumber(At(bars.highs, j)))

\* SARStep that holds the SAR to the bar before only, never to bar i - 2
SARStepOneBarClamp(bars, af, i, st) ==
    Call5(SARReverse, bars, af, i, st,
          SARClamp(bars, st.isUptrend,
                   Add(st.sar, Mul(st.af, Sub(st.ep, st.sar))), i - 1))

\* one pass of the loop of calculateParabolicSAR at bar i
SARStep(bars, af, i, st) ==
    LET moved == Add(st.sar, Mul(st.af, Sub(st.ep, st.sar)))
        held == SARClamp(bars, st.isUptrend, moved, i - 1)
    IN  Call5(SARReverse, bars, af, i, st,
              IF i >= 2 THEN SARClamp(bars, st.isUptrend, held, i - 2) ELSE held)

RECURSIVE SARLoop(_, _, _, _, _)
SARLoop(bars, af, lo, hi, st) ==
    IF lo > hi THEN st
    ELSE IF lo = hi THEN Call4(SARStep, bars, af, lo, st)
    ELSE LET mid == (lo + hi) \div 2
         IN  Call5(SARLoop, bars, af, mid + 1, hi, Call5(SARLoop, bars, af, lo, mid, st))

calculateParabolicSARBody(highs, lows, closes, initialAF, maxAF) ==
    LET bars == [highs |-> highs, lows |-> lows, closes |-> closes]
    IN  Call5(SARLoop, bars, [initial |-> initialAF, max |-> maxAF], 1, Len(closes) - 1,
              SARStart(bars, initialAF)).result

calculateParabolicSAR(highs, lows, closes, initialAF, maxAF) ==
    Call5(calculateParabolicSARBody, highs, lows, closes, initialAF, maxAF)

\* calculateAllIndicators from the five columns of the bars on; the periods
\* are the literals of the calls and the defaults of the parameters left out
AllFromColumns(prices, highs, lows, volumes, dates) ==
    [sma |-> calculateSMA(prices, 20),
     ema |-> calculateEMA(prices, 20),
     macd |-> calculateMACD(prices, 12, 26, 9),
     rsi |-> calculateRSI(prices, 14),
     bollingerBands |-> calculateBollingerBands(prices, 20, Num(2)),
     volumes |-> volumes,
     dates |-> dates,
     adx |-> calculateADX(highs, lows, prices, 14),
     parabolicSAR |-> calculateParabolicSAR(highs, lows, prices, Rat(1, 50), Rat(1, 5))]

\* The arrays of a call of calculateAllIndicators, as the call leaves them:
\* prices, highs and lows are new arrays built by stockData.map, and the
\* indicator functions only read their arguments (slice, reduce, indexing).
calculateAllIndicatorsArrays(sd) ==
    [stockData |-> sd,
     prices |-> [i \in 1..Len(sd) |-> sd[i].close],
     highs |-> [i \in 1..Len(sd) |-> sd[i].high],
     lows |-> [i \in 1..Len(sd) |-> sd[i].low]]

\* sd is the parameter stockData, a sequence of bars
calculateAllIndicators(sd) ==
    Call5(AllFromColumns,
          [i \in 1..Len(sd) |-> sd[i].close],
          [i \in 1..Len(sd) |-> sd[i].high],
          [i \in 1..Len(sd) |-> sd[i].low],
          [i \in 1..Len(sd) |-> sd[i].volume],
          [i \in 1..Len(sd) |-> sd[i].date])

---------------------------------------------------------------------------
(* The library functions on their own: the series handed to them *)

MaxSeries == 6

\* n closes: the first is 10, each later one is the one before plus its step
RECURSIVE Walk(_)
Walk(steps) ==
    IF Len(steps) = 0 THEN <<10>>
    ELSE LET before == Walk(SubSeq(steps, 1, Len(steps) - 1))
         IN  Append(before, before[Len(before)] + steps[Len(steps)])

Series == {<<>>} \cup UNION { { Walk(steps) : steps \in [1..k -> {-1, 0, 1}] } : k \in 0..(MaxSeries - 1) }

NumSeq(ints) == [i \in 1..Len(ints) |-> Num(ints[i])]

Periods == 1..3

SeriesCalls(fn) ==
    { [fn |-> fn, data |-> NumSeq(s), period |-> p] : s \in Series, p \in Periods }

\* calculateMACD with the periods (1, 2, 2) and (2, 3, 2)
MACDCalls ==
    { [fn |-> "calculateMACD", data |-> NumSeq(s),
       fastPeriod |-> p, slowPeriod |-> p + 1, signalPeriod |-> 2] :
         s \in Series, p \in {1, 2} }

\* calculateBollingerBands with 2 standard deviations
BollingerCalls ==
    { [fn |-> "calculateBollingerBands", data |-> NumSeq(s), period |-> p,
       stdDev |-> Num(2)] : s \in Series, p \in Periods }

\* bars of the closes s: every high is `up` above and every low is `down`
\* below the close of its bar
BarsAround(s, up, down) ==
    [highs |-> [i \in 1..Len(s) |-> Num(s[i] + up)],
     lows |-> [i \in 1..Len(s) |-> Num(s[i] - down)],
     closes |-> NumSeq(s)]

BarSeries == { BarsAround(s, up, down) : s \in Series, up \in {0, 1}, down \in {0, 1} }

ADXCalls ==
    { [fn |-> "calculateADX", highs |-> b.highs, lows |-> b.lows, closes |-> b.closes,
       period |-> p] : b \in BarSeries, p \in Periods }

\* calculateParabolicSAR with the steps (0.02, 0.2) of its defaults and with
\* the steps (0.25, 0.5)
SARCalls ==
    { [fn |-> "calculateParabolicSAR", highs |-> b.highs, lows |-> b.lows,
       closes |-> b.closes, initialAF |-> af[1], maxAF |-> af[2]] :
         b \in BarSeries, af \in {<<Rat(1, 50), Rat(1, 5)>>, <<Rat(1, 4), Rat(1, 2)>>} }

IndicatorCalls ==
    SeriesCalls("calculateSMA") \cup SeriesCalls("calculateEMA") \cup MACDCalls
        \cup SeriesCalls("calculateRSI") \cup BollingerCalls \cup ADXCalls \cup SARCalls

ReturnedBy(fn, v) == [status |-> "returned", fn |-> fn, value |-> v]

InitIndicators ==
    /\ args \in IndicatorCalls
    /\ NoBrowser
    /\ stockData = [isNull |-> TRUE, items |-> <<>>]
    /\ engine = "merge"
    /\ outcome = Idle

\* the caller runs calculateSMA(data, period)
SMA ==
    /\ outcome.status = "idle"
    /\ args.fn = "calculateSMA"
    /\ outcome' = ReturnedBy("calculateSMA", calculateSMA(args.data, args.period))
    /\ UNCHANGED <<stockData, engine, args, page, localStorage, now>>

\* the caller runs calculateEMA(data, period)
EMA ==
    /\ outcome.status = "idle"
    /\ args.fn = "calculateEMA"
    /\ outcome' = ReturnedBy("calculateEMA", calculateEMA(args.data, args.period))
    /\ UNCHANGED <<stockData, engine, args, page, localStorage, now>>

\* the caller runs calculateMACD(data, fastPeriod, slowPeriod, signalPeriod)
MACD ==
    /\ outcome.status = "idle"
    /\ args.fn = "calculateMACD"
    /\ outcome' = ReturnedBy("calculateMACD",
                             calculateMACD(args.data, args.fastPeriod, args.slowPeriod,
                                           args.signalPeriod))
    /\ UNCHANGED <<stockData, engine, args, page, localStorage, now>>

\* the caller runs calculateRSI(data, period)
RSI ==
    /\ outcome.status = "idle"
    /\ args.fn = "calculateRSI"
    /\ outcome' = ReturnedBy("calculateRSI", calculateRSI(args.data, args.period))
    /\ UNCHANGED <<stockData, engine, args, page, localStorage, now>>

\* the caller runs calculateBollingerBands(data, period, stdDev)
Bollinger ==
    /\ outcome.status = "idle"
    /\ args.fn = "calculateBollingerBands"
    /\ outcome' = ReturnedBy("calculateBollingerBands",
                             calculateBollingerBands(args.data, args.period, args.stdDev))
    /\ UNCHANGED <<stockData, engine, args, page, localStorage, now>>

\* the caller runs calculateADX(highs, lows, closes, period)
ADX ==
    /\ outcome.status = "idle"
    /\ args.fn = "calculateADX"
    /\ outcome' = ReturnedBy("calculateADX",
                             calculateADX(args.highs, args.lows, args.closes, args.period))
    /\ UNCHANGED <<stockData, engine, args, page, localStorage, now>>

\* the caller runs calculateParabolicSAR(highs, lows, closes, initialAF, maxAF)
ParabolicSAR ==
    /\ outcome.status = "idle"
    /\ args.fn = "calculateParabolicSAR"
    /\ outcome' = ReturnedBy("calculateParabolicSAR",
                             calculateParabolicSAR(args.highs, args.lows, args.closes,
                                                   args.initialAF, args.maxAF))
    /\ UNCHANGED <<stockData, engine, args, page, localStorage, now>>

NextIndicators == SMA \/ EMA \/ MACD \/ RSI \/ Bollinger \/ ADX \/ ParabolicSAR

SpecIndicators == InitIndicators /\ [][NextIndicators]_vars

\* what the claims read of a library call
Ran(fn) == outcome.status = "returned" /\ args.fn = fn
Out == outcome.value

---------------------------------------------------------------------------
(* calculateAllIndicators on its own: the bars handed to it *)

MaxIndicatorBars == 35

\* bar i of n: the close is 100, moved by `off` on the last two bars; the
\* high is MaxIndicatorBars + 1 above 100 and the low as much below it, both
\* drifting by `drift` a bar, so that low <= close <= high on every bar
DailyBar(i, n, drift, off) ==
    [date |-> i,
     open |-> Num(100),
     high |-> Num(100 + (MaxIndicatorBars + 1) + drift * (i - 1)),
     low |-> Num(100 - (MaxIndicatorBars + 1) + drift * (i - 1)),
     close |-> Num(100 + (IF i > n - 2 /\ n >= 2 THEN off[i - (n - 2)] ELSE 0)),
     volume |-> Num(1000)]

DailyBars ==
    { [isNull |-> FALSE, items |-> [i \in 1..n |-> DailyBar(i, n, drift, off)]] :
         n \in 0..MaxIndicatorBars, drift \in Steps, off \in [1..2 -> {-1, 0, 1}] }

InitAll ==
    /\ stockData \in DailyBars
    /\ engine = "merge"
    /\ args = NoArgs
    /\ NoBrowser
    /\ outcome = Idle

\* the caller runs calculateAllIndicators(stockData)
AllIndicators ==
    /\ outcome.status = "idle"
    /\ outcome' = ReturnedBy("calculateAllIndicators", calculateAllIndicators(stockData.items))
    /\ stockData' = [stockData EXCEPT !.items = calculateAllIndicatorsArrays(stockData.items).stockData]
    /\ UNCHANGED <<engine, args, page, localStorage, now>>

NextAll == AllIndicators

SpecAll == InitAll /\ [][NextAll]_vars

---------------------------------------------------------------------------
(* The two entry points on the same bars *)

\* the caller holds a bar sequence (or nothing) and passes it to either
\* predictStockPrices or calculateAllIndicators
InitCalls ==
    /\ stockData \in DailyBars \cup {[isNull |-> TRUE, items |-> <<>>]}
    /\ engine \in Engines
    /\ args = NoArgs
    /\ NoBrowser
    /\ outcome = Idle

\* calculateAllIndicators reads stockData.map at once: called with nothing it
\* throws a TypeError before any array exists
AllIndicatorsOfCaller ==
    /\ outcome.status = "idle"
    /\ IF stockData.isNull
       THEN outcome' = Threw("TypeError")
            /\ UNCHANGED <<stockData, engine, args, page, localStorage, now>>
       ELSE AllIndicators

NextCalls == Predict \/ AllIndicatorsOfCaller

SpecCalls == InitCalls /\ [][NextCalls]_vars

---------------------------------------------------------------------------
(* C12 *)

\* C12: for every non-empty bar sequence, every sequence calculateAllIndicators
\* returns (sma, ema, macd line/signal/histogram, rsi, Bollinger
\* upper/middle/lower, adx, parabolicSAR) has exactly as many entries as the
\* input
C12_OutputsAlignedWithBars ==
    (HasResult /\ N >= 1) =>
        /\ Len(Result.sma) = N
        /\ Len(Result.ema) = N
        /\ Len(Result.macd.line) = N
        /\ Len(Result.macd.signal) = N
        /\ Len(Result.macd.histogram) = N
        /\ Len(Result.bollingerBands.upper) = N
        /\ Len(Result.bollingerBands.middle) = N
        /\ Len(Result.bollingerBands.lower) = N
        /\ Len(Result.parabolicSAR) = N
        /\ Len(Result.rsi) = N
        /\ Len(Result.adx) = N

---------------------------------------------------------------------------
(* C13 *)

\* every entry of the indicator output is the undefined sentinel
AllUndefined(output) == \A i \in 1..Len(output) : IsNaN(output[i])

\* C13: with fewer bars than an indicator needs for its first value (SMA, EMA,
\* Bollinger: 20; MACD: 26; RSI: 15; ADX: 28) every entry of that indicator's
\* output is the undefined sentinel
C13_UndefinedBelowWarmUp ==
    HasResult =>
        /\ N < 20 =>
              /\ AllUndefined(Result.sma)
              /\ AllUndefined(Result.ema)
              /\ AllUndefined(Result.bollingerBands.upper)
              /\ AllUndefined(Result.bollingerBands.middle)
              /\ AllUndefined(Result.bollingerBands.lower)
        /\ N < 26 =>
              /\ AllUndefined(Result.macd.line)
              /\ AllUndefined(Result.macd.signal)
              /\ AllUndefined(Result.macd.histogram)
        /\ N < 15 => AllUndefined(Result.rsi)
        /\ N < 28 => AllUndefined(Result.adx)

---------------------------------------------------------------------------
(* C14 *)

\* every high, low and close of the call is the same price
FlatBars ==
    /\ Len(args.closes) > 0
    /\ \A i \in 1..Len(args.closes) :
          /\ args.closes[i] = args.closes[1]
          /\ args.highs[i] = args.closes[1]
          /\ args.lows[i] = args.closes[1]

\* C14: for a flat price series (all highs, lows and closes equal) every ADX
\* entry from index 2*period-1 on is a defined number (a zero denominator is
\* replaced by a small epsilon, not divided by)
C14_ADXOfFlatSeriesDefined ==
    (Ran("calculateADX") /\ FlatBars /\ Len(args.closes) >= 2 * args.period) =>
        \A i \in (2 * args.period - 1)..(Len(Out) - 1) : IsFiniteNum(Out[i + 1])

---------------------------------------------------------------------------
(* C15 *)

\* C15: for every input of more than `period` closes, every RSI entry at
\* index >= period is a defined number in [0, 100], also when no bar closes
\* lower and when the price is flat (an average loss of zero is replaced by
\* 0.001)
C15_RSIInRange ==
    (Ran("calculateRSI") /\ Len(args.data) > args.period) =>
        \A i \in args.period..(Len(Out) - 1) :
           /\ IsFiniteNum(Out[i + 1])
           /\ Leq(Num(0), Out[i + 1])
           /\ Leq(Out[i + 1], Num(100))

C15_RSIOfRisingCloses ==
    /\ Ran("calculateRSI")
    /\ args.period = 2
    /\ args.data = NumSeq(<<10, 11, 12, 13>>)
    /\ Out = <<NaN, NaN, Rat(100000, 1001), Rat(100000, 1001)>>

---------------------------------------------------------------------------
(* C16 *)

\* the bars and the steps of the calculateParabolicSAR call
SARBars == [highs |-> args.highs, lows |-> args.lows, closes |-> args.closes]
SARFactors == [initial |-> args.initialAF, max |-> args.maxAF]

\* the loop variables of the call after the pass at bar i (before the loop
\* for i = 0)
SARScan(i) == Call5(SARLoop, SARBars, SARFactors, 1, i, SARStart(SARBars, args.initialAF))

\* the pass at bar i reverses the trend
SARFlipsAt(i) == SARScan(i).isUptrend # SARScan(i - 1).isUptrend

\* C16: the scan reverses at bar i exactly when the price crosses the SAR
\* emitted for bar i (uptrend: low[i] below it; downtrend: high[i] above it);
\* on a reversal the SAR carried into the next pass is the prior extreme
\* point, the extreme point is the bar's high (new uptrend) or low (new
\* downtrend), and the acceleration factor is the initial one
C16_SARReversal ==
    Ran("calculateParabolicSAR") =>
        \A i \in 1..(Len(args.closes) - 1) :
           /\ SARFlipsAt(i) <=>
                 IF SARScan(i - 1).isUptrend
                 THEN Less(args.lows[i + 1], Out[i + 1])
                 ELSE Greater(args.highs[i + 1], Out[i + 1])
           /\ SARFlipsAt(i) =>
                 /\ SARScan(i).sar = SARScan(i - 1).ep
                 /\ SARScan(i).ep = (IF SARScan(i).isUptrend THEN args.highs[i + 1]
                                     ELSE args.lows[i + 1])
                 /\ SARScan(i).af = args.initialAF

---------------------------------------------------------------------------
(* C17 *)

\* C17: for every bar index i >= 1 the SAR emitted at i does not penetrate
\* the prior bars: entering bar i in an uptrend it is <= low[i-1] and, when
\* i >= 2, <= low[i-2]; in a downtrend it is >= high[i-1] and, when i >= 2,
\* >= high[i-2]
C17_SARHeldToPriorBars ==
    Ran("calculateParabolicSAR") =>
        \A i \in 1..(Len(args.closes) - 1) :
           IF SARScan(i - 1).isUptrend
           THEN /\ Leq(Out[i + 1], args.lows[i])
                /\ i >= 2 => Leq(Out[i + 1], args.lows[i - 1])
           ELSE /\ Leq(args.highs[i], Out[i + 1])
                /\ i >= 2 => Leq(args.highs[i - 1], Out[i + 1])

C17_SARHeldToBarBeforeLast ==
    /\ Ran("calculateParabolicSAR")
    /\ args.closes = NumSeq(<<10, 11, 12, 13>>)
    /\ args.lows = NumSeq(<<9, 10, 11, 12>>)
    /\ SARScan(2).isUptrend
    /\ Out[4] = args.lows[2]
    /\ Less(args.lows[2], args.lows[3])

---------------------------------------------------------------------------
(* C18 *)

\* closes, highs and lows all increase from bar to bar (two bars at least)
RisingBars ==
    /\ Len(args.closes) >= 2
    /\ \A i \in 1..(Len(args.closes) - 1) :
          /\ Less(args.closes[i], args.closes[i + 1])
          /\ Less(args.highs[i], args.highs[i + 1])
          /\ Less(args.lows[i], args.lows[i + 1])

\* C18: for a monotonically rising series (closes, highs and lows all
\* increasing from bar to bar) the scan starts in an uptrend and is in an
\* uptrend after every bar
C18_RisingSeriesNeverFlips ==
    (Ran("calculateParabolicSAR") /\ RisingBars) =>
        \A i \in 0..(Len(args.closes) - 1) : SARScan(i).isUptrend

C18_RisingSeriesScanned ==
    /\ Ran("calculateParabolicSAR")
    /\ RisingBars
    /\ Len(args.closes) >= 5
    /\ \A i \in 0..(Len(args.closes) - 1) : SARScan(i).isUptrend
    /\ \A i \in 2..Len(args.closes) : IsFiniteNum(Out[i])

---------------------------------------------------------------------------
(* C19 *)

\* the arithmetic mean of the entries lo..hi (zero-based) of data
MeanOf(data, lo, hi) == Div(Sum(SubSeq(data, lo + 1, hi + 1)), Num(hi - lo + 1))

\* C19: SMA(data, P) has the length of data; entry i (zero-based) is
\* undefined for i < P-1 and is the arithmetic mean of data[i-P+1..i] for
\* i >= P-1, so every entry is undefined when data is shorter than P
C19_SMAIsWindowMean ==
    Ran("calculateSMA") =>
        /\ Len(Out) = Len(args.data)
        /\ \A i \in 0..(Len(args.data) - 1) :
              IF i < args.period - 1
              THEN IsNaN(Out[i + 1])
              ELSE /\ IsFiniteNum(Out[i + 1])
                   /\ Out[i + 1] = MeanOf(args.data, i - args.period + 1, i)

C19_SMAOfUnevenCloses ==
    /\ Ran("calculateSMA")
    /\ args.period = 3
    /\ Len(args.data) = 5
    /\ IsNaN(Out[2])
    /\ Out[3] = Rat(31, 3)
    /\ Out[5] = Num(10)
    /\ args.data[5] = Num(9)

---------------------------------------------------------------------------
(* C20 *)

\* C20: EMA(data, P) is undefined before index P-1, is the simple mean of the
\* first P values at index P-1, and for every i > P-1 satisfies
\* ema[i] = data[i]*k + ema[i-1]*(1-k) with k = 2/(P+1)
C20_EMARecurrence ==
    Ran("calculateEMA") =>
        LET P == args.period
            k == Div(Num(2), Num(P + 1))
        IN  \A i \in 0..(Len(args.data) - 1) :
               IF i < P - 1 THEN IsNaN(Out[i + 1])
               ELSE IF i = P - 1 THEN Out[i + 1] = MeanOf(args.data, 0, P - 1)
               ELSE Out[i + 1] = Add(Mul(args.data[i + 1], k), Mul(Out[i], Sub(Num(1), k)))

C20_EMAOfRisingCloses ==
    /\ Ran("calculateEMA")
    /\ args.period = 3
    /\ args.data = NumSeq(<<10, 11, 12, 13, 13>>)
    /\ IsNaN(Out[2])
    /\ Out[3] = Num(11)
    /\ Out[4] = Num(12)
    /\ Out[5] = Rat(25, 2)

---------------------------------------------------------------------------
(* C21 *)

\* C21: at every index where the Bollinger middle band is defined,
\* upper >= middle >= lower (multiplier 2), and upper and lower are undefined
\* exactly where middle is undefined
C21_BandsAroundMiddle ==
    Ran("calculateBollingerBands") =>
        /\ Len(Out.upper) = Len(Out.middle)
        /\ Len(Out.lower) = Len(Out.middle)
        /\ \A i \in 1..Len(Out.middle) :
              IF IsNaN(Out.middle[i])
              THEN IsNaN(Out.upper[i]) /\ IsNaN(Out.lower[i])
              ELSE /\ IsFiniteNum(Out.upper[i])
                   /\ IsFiniteNum(Out.lower[i])
                   /\ Leq(Out.middle[i], Out.upper[i])
                   /\ Leq(Out.lower[i], Out.middle[i])

C21_BandsApart ==
    /\ Ran("calculateBollingerBands")
    /\ args.period = 3
    /\ args.data = NumSeq(<<10, 11, 12, 12>>)
    /\ IsNaN(Out.middle[2]) /\ IsNaN(Out.upper[2]) /\ IsNaN(Out.lower[2])
    /\ Out.middle[3] = Num(11)
    /\ Less(Out.middle[3], Out.upper[3])
    /\ Less(Out.lower[3], Out.middle[3])
    /\ Sub(Out.upper[3], Out.middle[3]) = Sub(Out.middle[3], Out.lower[3])

---------------------------------------------------------------------------
(* C24 *)

\* the bar i sets a new extreme point for the trend the scan enters it in
SARNewExtremeAt(i) ==
    IF SARScan(i - 1).isUptrend
    THEN Greater(args.highs[i + 1], SARScan(i - 1).ep)
    ELSE Less(args.lows[i + 1], SARScan(i - 1).ep)

\* the rule of the acceleration factor at the pass of bar i, prev being the
\* loop variables before the pass: the factor after it lies between the
\* initial and the maximum step, and without a reversal it is the factor
\* before plus the initial step (capped at the maximum) when the bar sets a
\* new extreme point, the factor before otherwise
SARFactorRule(i, prev) ==
    LET cur == SARStep(SARBars, SARFactors, i, prev)
        newExtreme == IF prev.isUptrend
                      THEN Greater(args.highs[i + 1], prev.ep)
                      ELSE Less(args.lows[i + 1], prev.ep)
    IN  /\ Leq(args.initialAF, cur.af)
        /\ Leq(cur.af, args.maxAF)
        /\ cur.isUptrend = prev.isUptrend =>
               cur.af =
                  IF newExtreme
                  THEN (IF Less(Add(prev.af, args.initialAF), args.maxAF)
                        THEN Add(prev.af, args.initialAF)
                        ELSE args.maxAF)
                  ELSE prev.af

\* C24: throughout the scan the acceleration factor stays between the initial
\* step and the maximum step; on a bar without a reversal it grows by exactly
\* the initial step (capped at the maximum) when the bar sets a new extreme
\* point and is unchanged otherwise
C24_AccelerationFactor ==
    Ran("calculateParabolicSAR") =>
        /\ SARScan(0).af = args.initialAF
        /\ \A i \in 1..(Len(args.closes) - 1) :
              Call2(SARFactorRule, i, SARScan(i - 1))

C24_FactorCapped ==
    /\ Ran("calculateParabolicSAR")
    /\ Len(args.closes) >= 5
    /\ args.initialAF = Rat(1, 4)
    /\ SARScan(1).af = Rat(1, 2)
    /\ SARScan(2).af = args.maxAF
    /\ ~SARFlipsAt(2)
    /\ SARNewExtremeAt(2)
    /\ ~SARFlipsAt(3) /\ ~SARNewExtremeAt(3) /\ SARScan(3).af = args.maxAF
    /\ SARFlipsAt(4) /\ SARScan(4).af = args.initialAF

---------------------------------------------------------------------------
(* C25 *)

\* C25: the output at index 0 is undefined; the initial trend is up exactly
\* when the second close is above the first, and the SAR is seeded at the
\* opposing extreme of bar 0 (its low for an uptrend, its high for a
\* downtrend) with the extreme point at the other extreme
C25_SARSeed ==
    Ran("calculateParabolicSAR") =>
        /\ IsNaN(Out[1])
        /\ Len(args.closes) >= 1 =>
              /\ SARScan(0).isUptrend <=>
                    (Len(args.closes) >= 2 /\ Less(args.closes[1], args.closes[2]))
              /\ SARScan(0).sar = (IF SARScan(0).isUptrend THEN args.lows[1]
                                   ELSE args.highs[1])
              /\ SARScan(0).ep = (IF SARScan(0).isUptrend THEN args.highs[1]
                                  ELSE args.lows[1])

C25_SeededBelowRisingStart ==
    /\ Ran("calculateParabolicSAR")
    /\ Len(args.closes) >= 2
    /\ Less(args.closes[1], args.closes[2])
    /\ Less(args.lows[1], args.highs[1])
    /\ SARScan(0).isUptrend
    /\ SARScan(0).sar = args.lows[1]
    /\ SARScan(0).ep = args.highs[1]
    /\ IsNaN(Out[1])
    /\ Out[2] = args.lows[1]

---------------------------------------------------------------------------
(* C26 *)

\* the defined values of the MACD line of the result, in order
DefinedLine == SelectSeq(Result.macd.line, LAMBDA value : ~IsNaN(value))

\* C26: with the periods (12, 26, 9) the MACD line is defined exactly at the
\* indices >= 25; the signal is the 9-period EMA of the defined line values,
\* its k-th value at index 25 + k, hence defined exactly at the indices >= 33;
\* the histogram is line minus signal where both are defined and undefined
\* elsewhere; so for fewer than 26 closes all three are entirely undefined
C26_MACDAlignment ==
    HasResult =>
        /\ \A i \in 0..(N - 1) :
              /\ IsNaN(Result.macd.line[i + 1]) <=> i < 25
              /\ IsNaN(Result.macd.signal[i + 1]) <=> i < 33
              /\ i >= 25 =>
                    Result.macd.signal[i + 1] = calculateEMA(DefinedLine, 9)[i - 25 + 1]
              /\ Result.macd.histogram[i + 1] =
                    IF i >= 33
                    THEN Sub(Result.macd.line[i + 1], Result.macd.signal[i + 1])
                    ELSE NaN
        /\ N < 26 =>
              /\ AllUndefined(Result.macd.line)
              /\ AllUndefined(Result.macd.signal)
              /\ AllUndefined(Result.macd.histogram)

C26_SignalFromNinthLineValue ==
    /\ HasResult
    /\ N = 35
    /\ IsNaN(Result.macd.line[25]) /\ IsFiniteNum(Result.macd.line[26])
    /\ IsNaN(Result.macd.signal[33]) /\ IsFiniteNum(Result.macd.signal[34])
    /\ Result.macd.signal[34] # Num(0)
    /\ Result.macd.signal[35] # Result.macd.signal[34]
    /\ IsNaN(Result.macd.histogram[33])
    /\ Result.macd.histogram[35] # Num(0)
    /\ IsFiniteNum(Result.macd.histogram[35])


---------------------------------------------------------------------------
(* C22 *)

\* a predictStockPrices call has returned (its outcome carries no fn)
PredictReturned == outcome.status = "returned" /\ "fn" \notin DOMAIN outcome

---------------------------------------------------------------------------
(* Local storage: src/src/lib/storage.ts *)

\* The clock Date.now() counts half hours, so CACHE_DURATION (60 * 60 * 1000
\* ms) is two ticks and a UTC day is 48.
CACHE_DURATION == 2
MAX_DAILY_CALLS == 25
TicksPerDay == 24 * CACHE_DURATION

\* the page is opened an hour before UTC midnight and watched for MaxTicks
\* half hours
MaxTicks == 2
FirstTick == TicksPerDay - CACHE_DURATION
LastTick == FirstTick + MaxTicks

\* new Date().toISOString().split('T')[0], as a day number
DayOf(t) == t \div TicksPerDay
Days == 0..DayOf(LastTick)

Symbols == {"AAPL", "MSFT"}
\* selectedStock === null
NoStock == ""

\* A stored item is a string; getItem gives null for a missing key.
NoItem == [kind |-> "null"]

RECURSIVE ToDigits(_)
\* Number.prototype.toString of a non-negative integer: its decimal digits
ToDigits(n) == IF n < 10 THEN <<n>> ELSE Append(ToDigits(n \div 10), n % 10)
NumberToString(n) == [kind |-> "string", digits |-> ToDigits(n)]

RECURSIVE FromDigits(_)
FromDigits(ds) ==
    IF Len(ds) = 0 THEN 0
    ELSE 10 * FromDigits(SubSeq(ds, 1, Len(ds) - 1)) + ds[Len(ds)]
\* parseInt(text, 10) of a string of decimal digits
parseInt(text) == FromDigits(text.digits)

\* The series getStockTimeSeries(symbol, 'daily', 'full') resolves to: a bar
\* of finite prices for each weekday of the last 365 days (some 260),
\* generated afresh (at random) by every call; a series is told apart by its
\* symbol and the tick it was generated in.
SeriesOf(symbol, t) == [symbol |-> symbol, generatedAt |-> t, length |-> 260]
\* the empty array []
NoBars == [symbol |-> NoStock, generatedAt |-> 0, length |-> 0]
\* the value null where a series is expected
NullSeries == [symbol |-> NoStock, generatedAt |-> 0, length |-> -1]

\* JSON.stringify of an array of strings: the text of an array of string
\* literals
StringifyWatchlist(list) ==
    [kind |-> "string",
     json |-> [type |-> "array",
               items |-> [i \in 1..Len(list) |-> [type |-> "string", chars |-> list[i]]]]]

\* JSON.stringify of a CachedStockData object: the bars hold date strings and
\* finite numbers, which JSON writes and reads back as they are; the
\* timestamp is written in decimal
StringifyCache(cacheData) ==
    [kind |-> "string",
     json |-> [type |-> "object",
               data |-> [type |-> "array", bars |-> cacheData.data],
               timestamp |-> [type |-> "number", digits |-> ToDigits(cacheData.timestamp)],
               symbol |-> [type |-> "string", chars |-> cacheData.symbol]]]

\* a stored string that is no JSON text: JSON.parse throws on it
Unreadable == [kind |-> "string", chars |-> "<html>"]

\* JSON.parse: does it return (TRUE) or throw a SyntaxError (FALSE)
Parses(text) == "json" \in DOMAIN text

\* JSON.parse of the text of an array of strings
ParseWatchlist(text) == [i \in 1..Len(text.json.items) |-> text.json.items[i].chars]

\* JSON.parse of the text of a CachedStockData object
ParseCache(text) ==
    [data |-> text.json.data.bars,
     timestamp |-> FromDigits(text.json.timestamp.digits),
     symbol |-> text.json.symbol.chars]

\* localStorage with nothing in it.  The keys are 'stockWatchlist',
\* 'last_cache_refresh', `stock_data_${symbol}` and `api_calls_${today}`.
EmptyStorage ==
    [stockWatchlist |-> NoItem,
     last_cache_refresh |-> NoItem,
     stock_data |-> [s \in Symbols |-> NoItem],
     api_calls |-> [d \in Days |-> NoItem]]

\* getCachedStockData(symbol) at time t; a throw of JSON.parse is caught
getCachedStockDataAtMostHour(ls, t, symbol) ==
    LET cachedData == ls.stock_data[symbol]
    IN  IF cachedData = NoItem THEN NullSeries
        ELSE IF ~Parses(cachedData) THEN NullSeries
        ELSE LET parsedCache == ParseCache(cachedData)
             IN  IF t - parsedCache.timestamp <= CACHE_DURATION
                 THEN parsedCache.data
                 ELSE NullSeries

getCachedStockData(ls, t, symbol) ==
    LET cachedData == ls.stock_data[symbol]
    IN  IF cachedData = NoItem THEN NullSeries
        ELSE IF ~Parses(cachedData) THEN NullSeries
        ELSE LET parsedCache == ParseCache(cachedData)
             IN  IF t - parsedCache.timestamp < CACHE_DURATION
                 THEN parsedCache.data
                 ELSE NullSeries

\* cacheStockData(symbol, data) at time t: local storage afterwards
cacheStockData(ls, t, symbol, data) ==
    [ls EXCEPT !.stock_data[symbol] =
        StringifyCache([data |-> data, timestamp |-> t, symbol |-> symbol])]

\* trackApiCall() at time t: local storage afterwards
trackApiCall(ls, t) ==
    LET currentCount == ls.api_calls[DayOf(t)]
        newCount == IF currentCount # NoItem THEN parseInt(currentCount) + 1 ELSE 1
    IN  [ls EXCEPT !.api_calls[DayOf(t)] = NumberToString(newCount),
                   !.last_cache_refresh = NumberToString(t)]

getApiCallCount(ls, t) ==
    LET currentCount == ls.api_calls[DayOf(t)]
    IN  IF currentCount # NoItem THEN parseInt(currentCount) ELSE 0

\* shouldRefreshCache() at time t: what it returns, and local storage
\* afterwards (the first call records the time)
shouldRefreshCacheAtHour(ls, t) ==
    IF getApiCallCount(ls, t) >= MAX_DAILY_CALLS - 2
    THEN [returns |-> FALSE, localStorage |-> ls]
    ELSE LET lastRefresh == ls.last_cache_refresh
         IN  IF lastRefresh = NoItem
             THEN [returns |-> TRUE,
                   localStorage |-> [ls EXCEPT !.last_cache_refresh = NumberToString(t)]]
             ELSE [returns |-> t - parseInt(lastRefresh) >= CACHE_DURATION,
                   localStorage |-> ls]

shouldRefreshCache(ls, t) ==
    IF getApiCallCount(ls, t) >= MAX_DAILY_CALLS - 2
    THEN [returns |-> FALSE, localStorage |-> ls]
    ELSE LET lastRefresh == ls.last_cache_refresh
         IN  IF lastRefresh = NoItem
             THEN [returns |-> TRUE,
                   localStorage |-> [ls EXCEPT !.last_cache_refresh = NumberToString(t)]]
             ELSE [returns |-> t - parseInt(lastRefresh) > CACHE_DURATION,
                   localStorage |-> ls]


---------------------------------------------------------------------------
(* The dashboard page: src/src/app/page.tsx *)

\* Event handlers, effects and timer callbacks run to completion, one at a
\* time.  An action below is one of them together with the render React
\* makes of the state it set and the effects of that render; `w` is the
\* world such a run works on, [page |-> the component, localStorage |-> the
\* storage], and the clock `now` stands still during the run.  The functions
\* of a render see the watchlist and the selectedStock of that render (their
\* closure), whatever the state is when they run.

MaxLoads == 2

Contains(list, x) == \E i \in 1..Len(list) : list[i] = x
Without(list, x) == SelectSeq(list, LAMBDA s : s # x)

NoSession == [running |-> FALSE]
NoInterval == [set |-> FALSE]

\* the page is not open; strictEffects tells the build: `next dev` with
\* reactStrictMode (next.config.js) runs the effects of a mount twice
ClosedPage(strict) == [mounted |-> FALSE, strictEffects |-> strict]

\* the state hooks at their initial values
InitialPage(strict) ==
    [mounted |-> TRUE, strictEffects |-> strict,
     watchlist |-> <<>>, selectedStock |-> NoStock, stockData |-> NoBars,
     isLoading |-> FALSE, error |-> "", showPredictions |-> FALSE, isCached |-> FALSE,
     \* the getStockTimeSeries calls not yet resolved, oldest first
     loads |-> <<>>,
     \* the refreshAllStockData call under way, if any
     session |-> NoSession,
     \* the closure of the setInterval callback
     interval |-> NoInterval,
     \* the times console.log printed in refreshAllStockData
     refreshLog |-> <<>>]

\* the watchlist and the selectedStock of the current render
ClosureOf(p) == [watchlist |-> p.watchlist, selectedStock |-> p.selectedStock]

\* fetchStockDataFromAPI(symbol) up to its await: the mock's promise is
\* pending (it resolves 500 ms later, and never rejects)
fetchStockDataFromAPI(w, symbol, closure, caller) ==
    [w EXCEPT !.page.loads =
        Append(@, [symbol |-> symbol, selectedStock |-> closure.selectedStock,
                   caller |-> caller])]

\* fetchStockData(symbol), up to its await when the cache has no valid entry
fetchStockData(w, symbol, closure) ==
    LET cachedData == getCachedStockData(w.localStorage, now, symbol)
        started == [w EXCEPT !.page.isLoading = TRUE, !.page.error = "",
                             !.page.showPredictions = FALSE, !.page.isCached = FALSE]
    IN  IF cachedData # NullSeries
        THEN [started EXCEPT !.page.stockData = cachedData,
                             !.page.isCached = TRUE,
                             !.page.showPredictions = cachedData.length >= 30,
                             !.page.isLoading = FALSE]
        ELSE fetchStockDataFromAPI(started, symbol, closure, "fetchStockData")

\* refreshAllStockData() up to its first await
refreshAllStockData(w, closure) ==
    IF Len(closure.watchlist) = 0 THEN w
    ELSE LET tracked ==
                 [w EXCEPT !.localStorage = trackApiCall(@, now),
                           !.page.refreshLog = Append(@, now),
                           !.page.session = [running |-> TRUE,
                                             watchlist |-> closure.watchlist,
                                             selectedStock |-> closure.selectedStock,
                                             index |-> 1,
                                             waiting |-> FALSE]]
         IN  fetchStockDataFromAPI(tracked, closure.watchlist[1], closure,
                                   "refreshAllStockData")

\* the state updates an effect queued: at most one value for each hook
NoUpdates == [watchlist |-> <<>>, selectedStock |-> <<>>]
Later(first, second) ==
    [watchlist |-> IF second.watchlist # <<>> THEN second.watchlist ELSE first.watchlist,
     selectedStock |-> IF second.selectedStock # <<>> THEN second.selectedStock
                       ELSE first.selectedStock]

\* the effect "Load watchlist from localStorage on initial render": the
\* updates it queues
LoadWatchlist(ls) ==
    LET savedWatchlist == ls.stockWatchlist
    IN  IF savedWatchlist = NoItem \/ ~Parses(savedWatchlist) THEN NoUpdates
        ELSE LET parsed == ParseWatchlist(savedWatchlist)
             IN  [watchlist |-> <<parsed>>,
                  selectedStock |-> IF Len(parsed) > 0 THEN <<parsed[1]>> ELSE <<>>]

\* the effect "Save watchlist to localStorage when it changes"
SaveWatchlist(w) ==
    [w EXCEPT !.localStorage.stockWatchlist = StringifyWatchlist(w.page.watchlist)]

\* the effect "Load chart data when selected stock changes"
LoadChart(w) ==
    IF w.page.selectedStock # NoStock
    THEN fetchStockData(w, w.page.selectedStock, ClosureOf(w.page))
    ELSE [w EXCEPT !.page.stockData = NoBars]

\* `if (shouldRefreshCache() && watchlist.length > 0) refreshAllStockData()`
\* in a render with the given closure
RefreshIfDue(w, closure) ==
    LET check == shouldRefreshCache(w.localStorage, now)
        checked == [w EXCEPT !.localStorage = check.localStorage]
    IN  IF check.returns /\ Len(closure.watchlist) > 0
        THEN refreshAllStockData(checked, closure)
        ELSE checked

\* the effect "Add periodic cache refresh": the check, then setInterval
PeriodicRefresh(w) ==
    [RefreshIfDue(w, ClosureOf(w.page)) EXCEPT
        !.page.interval = [set |-> TRUE,
                           watchlist |-> w.page.watchlist,
                           selectedStock |-> w.page.selectedStock]]

\* the effects of a render, in the order of their declaration; an effect
\* runs when one of its dependencies is a new value
Effects(w, watchlistChanged, selectedStockChanged) ==
    LET saved == IF watchlistChanged THEN SaveWatchlist(w) ELSE w
        charted == IF selectedStockChanged THEN LoadChart(saved) ELSE saved
    IN  IF watchlistChanged THEN PeriodicRefresh(charted) ELSE charted

\* the effects of the first render but the first, which only queues updates
MountEffects(w) == PeriodicRefresh(LoadChart(SaveWatchlist(w)))

\* The page is opened.  The first render has the initial state; its effects
\* run (twice under strict effects: React runs them, their cleanups, and
\* them again, before it renders the updates they queued); then the queued
\* updates are rendered and the effects of that render run.
Mount(ls, strict) ==
    LET w0 == [page |-> InitialPage(strict), localStorage |-> ls]
        w1 == MountEffects(w0)
        again == IF strict THEN LoadWatchlist(w1.localStorage) ELSE NoUpdates
        w2 == IF strict THEN MountEffects(w1) ELSE w1
        updates == Later(LoadWatchlist(ls), again)
        w3 == [w2 EXCEPT
                 !.page.watchlist = IF updates.watchlist # <<>>
                                    THEN updates.watchlist[1] ELSE @,
                 !.page.selectedStock = IF updates.selectedStock # <<>>
                                        THEN updates.selectedStock[1] ELSE @]
    IN  Effects(w3, updates.watchlist # <<>>, w3.page.selectedStock # NoStock)

\* handleSelectStock(symbol) and the render that follows
handleSelectStock(w, symbol) ==
    LET add == ~Contains(w.page.watchlist, symbol)
        set == [w EXCEPT !.page.watchlist = IF add THEN Append(@, symbol) ELSE @,
                         !.page.selectedStock = symbol]
    IN  Effects(set, add, symbol # w.page.selectedStock)

\* handleRemoveSymbol(symbol) and the render that follows; filter makes a
\* new array whatever it removes
handleRemoveSymbol(w, symbol) ==
    LET remaining == Without(w.page.watchlist, symbol)
        set == [w EXCEPT !.page.watchlist = Without(@, symbol),
                         !.page.selectedStock =
                             IF @ = symbol
                             THEN (IF Len(remaining) > 0 THEN remaining[1] ELSE NoStock)
                             ELSE @]
    IN  Effects(set, TRUE, set.page.selectedStock # w.page.selectedStock)

\* handleRefresh(), the Refresh button of the chart
handleRefresh(w) ==
    IF w.page.selectedStock # NoStock
    THEN fetchStockDataFromAPI(w, w.page.selectedStock, ClosureOf(w.page), "handleRefresh")
    ELSE w

\* the oldest pending getStockTimeSeries resolves: fetchStockDataFromAPI
\* goes on after its await, then its caller does
Resolved(w) ==
    LET load == Head(w.page.loads)
        data == SeriesOf(load.symbol, now)
        cached == [w EXCEPT !.page.loads = Tail(@),
                            !.localStorage = cacheStockData(@, now, load.symbol, data)]
        shown == IF load.symbol = load.selectedStock
                 THEN [cached EXCEPT !.page.stockData = data,
                                     !.page.isCached = FALSE,
                                     !.page.showPredictions = data.length >= 30]
                 ELSE cached
    IN  IF load.caller = "fetchStockData"
        THEN [shown EXCEPT !.page.isLoading = FALSE]
        ELSE IF load.caller = "refreshAllStockData"
        \* the 12-second delay starts
        THEN [shown EXCEPT !.page.session.waiting = TRUE]
        ELSE shown

\* the 12-second delay of refreshAllStockData is over: the next symbol, or
\* the end of the loop
Delayed(w) ==
    LET session == w.page.session
    IN  IF session.index < Len(session.watchlist)
        THEN fetchStockDataFromAPI(
                 [w EXCEPT !.page.session.index = @ + 1, !.page.session.waiting = FALSE],
                 session.watchlist[session.index + 1],
                 [watchlist |-> session.watchlist, selectedStock |-> session.selectedStock],
                 "refreshAllStockData")
        ELSE LET done == [w EXCEPT !.localStorage.last_cache_refresh = NumberToString(now),
                                   !.page.session = NoSession]
             IN  IF session.selectedStock # NoStock
                    /\ Contains(session.watchlist, session.selectedStock)
                 THEN fetchStockData(done, session.selectedStock,
                          [watchlist |-> session.watchlist,
                           selectedStock |-> session.selectedStock])
                 ELSE done


\* What an earlier visit of the page may have left in local storage: the
\* watchlist, a cached series of AAPL written `age` half hours ago (or a
\* string that is no JSON), today's call count, and the time of the last
\* refresh, as long ago as the cache was written.
LeftBy(list, age, readable, count) ==
    [EmptyStorage EXCEPT
        !.stockWatchlist = StringifyWatchlist(list),
        !.stock_data["AAPL"] =
            IF readable
            THEN StringifyCache([data |-> SeriesOf("AAPL", FirstTick - age),
                                 timestamp |-> FirstTick - age,
                                 symbol |-> "AAPL"])
            ELSE Unreadable,
        !.api_calls[DayOf(FirstTick)] = NumberToString(count),
        !.last_cache_refresh = NumberToString(FirstTick - age)]

\* a first visit, a visit half an hour after one refresh, and visits an hour
\* and a half after the 22nd and the 23rd refresh of the day
StoredBefore ==
    {EmptyStorage,
     LeftBy(<<"MSFT", "AAPL">>, 1, TRUE, 1),
     LeftBy(<<"AAPL">>, 3, TRUE, MAX_DAILY_CALLS - 3),
     LeftBy(<<"AAPL", "MSFT">>, 3, FALSE, MAX_DAILY_CALLS - 2)}

InitPage ==
    /\ stockData = [isNull |-> TRUE, items |-> <<>>]
    /\ outcome = Idle
    /\ engine = "merge"
    /\ args = NoArgs
    /\ page \in { ClosedPage(strict) : strict \in BOOLEAN }
    /\ localStorage \in StoredBefore
    /\ now = FirstTick

\* the run `w` of a handler ends: the page and the storage are as it left
\* them; no more than MaxLoads requests are pending at a time
Ends(w) ==
    /\ Len(w.page.loads) <= MaxLoads
    /\ page' = w.page
    /\ localStorage' = w.localStorage
    /\ UNCHANGED <<stockData, outcome, engine, args, now>>

World == [page |-> page, localStorage |-> localStorage]

\* the user opens the page
OpenPage ==
    /\ ~page.mounted
    /\ Ends(Mount(localStorage, page.strictEffects))

\* the user closes the page: its timers and pending requests go with it
ClosePage ==
    /\ page.mounted
    /\ page' = ClosedPage(page.strictEffects)
    /\ UNCHANGED <<stockData, outcome, engine, args, localStorage, now>>

\* the user picks a search result (StockSearch's onSelectStock)
SelectStock ==
    /\ page.mounted
    /\ \E symbol \in Symbols : Ends(handleSelectStock(World, symbol))

\* the user removes a symbol shown in the watchlist (WatchList's
\* onRemoveSymbol)
RemoveSymbol ==
    /\ page.mounted
    /\ \E i \in 1..Len(page.watchlist) : Ends(handleRemoveSymbol(World, page.watchlist[i]))

\* the user clicks Refresh, which the page shows above a loaded chart
Refresh ==
    /\ page.mounted
    /\ page.selectedStock # NoStock
    /\ ~page.isLoading
    /\ page.error = ""
    /\ page.stockData.length > 0
    /\ Ends(handleRefresh(World))

\* the mock's 500 ms timer fires for the oldest pending request
Resolve ==
    /\ page.mounted
    /\ Len(page.loads) > 0
    /\ Ends(Resolved(World))

\* the 12-second timer of the refresh session fires
Delay ==
    /\ page.mounted
    /\ page.session.running
    /\ page.session.waiting
    /\ Ends(Delayed(World))

\* the one-minute interval fires: the callback of the render that set it
IntervalCheck ==
    /\ page.mounted
    /\ page.interval.set
    /\ Ends(RefreshIfDue(World, [watchlist |-> page.interval.watchlist,
                                 selectedStock |-> page.interval.selectedStock]))

\* Half an hour passes.  A request takes 500 ms and a refresh session some
\* 12 seconds a symbol, little against half an hour: the clock moves when
\* nothing is pending.
Tick ==
    /\ now < LastTick
    /\ page.mounted => (Len(page.loads) = 0 /\ ~page.session.running)
    /\ now' = now + 1
    /\ UNCHANGED <<stockData, outcome, engine, args, page, localStorage>>

NextPage ==
    \/ OpenPage \/ ClosePage \/ SelectStock \/ RemoveSymbol \/ Refresh
    \/ Resolve \/ Delay \/ IntervalCheck \/ Tick

SpecPage == InitPage /\ [][NextPage]_vars


---------------------------------------------------------------------------
(* C23 *)

\* the page has just been opened on a stored watchlist that is not empty
OpensOnStoredWatchlist ==
    /\ ~page.mounted
    /\ page'.mounted
    /\ localStorage.stockWatchlist # NoItem
    /\ Len(ParseWatchlist(localStorage.stockWatchlist)) > 0

\* C23: the watchlist is persistent: whenever the effects have run, the list
\* stored under 'stockWatchlist' is the watchlist in memory; and opening the
\* page on a stored list that is not empty restores it: the watchlist is the
\* stored list, its first symbol is selected, and the list is still stored
C23_WatchlistPersistent ==
    /\ [](page.mounted => localStorage.stockWatchlist = StringifyWatchlist(page.watchlist))
    /\ [][OpensOnStoredWatchlist =>
            /\ page'.watchlist = ParseWatchlist(localStorage.stockWatchlist)
            /\ page'.selectedStock = page'.watchlist[1]
            /\ localStorage'.stockWatchlist = localStorage.stockWatchlist]_vars

---------------------------------------------------------------------------
(* C27 *)

\* no getStockTimeSeries call is pending and no refresh session is under way
NothingOutstanding ==
    /\ page.mounted
    /\ Len(page.loads) = 0
    /\ ~page.session.running

\* C27: once every outstanding load has completed, the series the page shows
\* is a series of the selected symbol
C27_ShownSeriesIsOfSelectedStock ==
    (NothingOutstanding /\ page.selectedStock # NoStock /\ page.stockData.length > 0)
        => page.stockData.symbol = page.selectedStock

---------------------------------------------------------------------------
(* C28 *)

\* handleRemoveSymbol has just removed the selected symbol
RemovesSelected ==
    /\ page.mounted
    /\ page'.mounted
    /\ page.selectedStock # NoStock
    /\ Contains(page.watchlist, page.selectedStock)
    /\ page'.watchlist = Without(page.watchlist, page.selectedStock)

\* C28: the selected stock of the open page is null or a member of the
\* watchlist; removing the selected symbol selects the first remaining
\* symbol, or null when none remains
C28_SelectedIsWatched ==
    /\ [](page.mounted =>
            (page.selectedStock = NoStock \/ Contains(page.watchlist, page.selectedStock)))
    /\ [][RemovesSelected =>
            page'.selectedStock = IF Len(page'.watchlist) > 0
                                  THEN page'.watchlist[1] ELSE NoStock]_vars


---------------------------------------------------------------------------
(* C29 *)

\* the times refreshAllStockData has logged since the page was opened
RefreshLog(p) == IF p.mounted THEN p.refreshLog ELSE <<>>

\* an automatic refresh session has just started
SessionStarts == Len(RefreshLog(page')) = Len(RefreshLog(page)) + 1

\* the time stored under 'last_cache_refresh' is more than an hour back
HourPassed(ls, t) ==
    ls.last_cache_refresh # NoItem
        /\ t - parseInt(ls.last_cache_refresh) > CACHE_DURATION

\* C29: shouldRefreshCache is false from 23 tracked calls of the day on, and
\* otherwise true exactly when no refresh time is stored or more than an
\* hour has passed since it; a refresh session starts only when it is true,
\* stores the current time and adds one to the day's count, which stays at
\* most 23; and the sessions of a visit start more than an hour apart
C29_RefreshSessionsRationed ==
    /\ [](shouldRefreshCache(localStorage, now).returns <=>
             /\ getApiCallCount(localStorage, now) < MAX_DAILY_CALLS - 2
             /\ (localStorage.last_cache_refresh = NoItem \/ HourPassed(localStorage, now)))
    /\ [](\A i \in 1..Len(RefreshLog(page)) :
             /\ parseInt(localStorage.last_cache_refresh) >= RefreshLog(page)[i]
             /\ i > 1 => RefreshLog(page)[i] - RefreshLog(page)[i - 1] > CACHE_DURATION)
    /\ [][SessionStarts =>
            /\ shouldRefreshCache(localStorage, now).returns
            /\ getApiCallCount(localStorage', now) = getApiCallCount(localStorage, now) + 1
            /\ getApiCallCount(localStorage', now) <= MAX_DAILY_CALLS - 2
            /\ localStorage'.last_cache_refresh = NumberToString(now)]_vars

\* the 23rd session of the day has started in this visit, and no other will
\* today
C29_TwentyThirdSession ==
    /\ page.mounted
    /\ Len(page.refreshLog) = 1
    /\ DayOf(page.refreshLog[1]) = DayOf(now)
    /\ getApiCallCount(localStorage, now) = MAX_DAILY_CALLS - 2
    /\ ~shouldRefreshCache(localStorage, now).returns

---------------------------------------------------------------------------
(* C30 *)

\* fetchStockData(symbol) has just run for the newly selected symbol, which
\* had a valid cache entry
LoadsFreshlyCached ==
    /\ page.mounted
    /\ page'.mounted
    /\ page'.selectedStock # NoStock
    /\ page'.selectedStock # page.selectedStock
    /\ getCachedStockData(localStorage, now, page'.selectedStock) # NullSeries

\* the pending requests that fetchStockData started
StartedByLoad(p) == SelectSeq(p.loads, LAMBDA load : load.caller = "fetchStockData")

\* C30: getCachedStockData(symbol) is a series of that symbol, stored less
\* than an hour ago, and it is null when the entry is missing, unreadable or
\* an hour old or older; what cacheStockData stores is what it returns at
\* once; and loading a symbol with a valid entry shows that entry, marked as
\* cached, and starts no request
C30_CacheServesFreshSeries ==
    /\ [](\A symbol \in Symbols :
            LET series == getCachedStockData(localStorage, now, symbol)
                item == localStorage.stock_data[symbol]
            IN  IF item # NoItem /\ Parses(item)
                   /\ now - ParseCache(item).timestamp < CACHE_DURATION
                THEN /\ series = ParseCache(item).data
                     /\ series.symbol = symbol
                     /\ now - series.generatedAt < CACHE_DURATION
                ELSE series = NullSeries)
    /\ [][(page.mounted /\ page'.mounted /\ Len(page.loads) > 0
              /\ page'.loads = Tail(page.loads)) =>
            /\ getCachedStockData(localStorage', now, Head(page.loads).symbol)
                  = SeriesOf(Head(page.loads).symbol, now)
            /\ \A other \in Symbols \ {Head(page.loads).symbol} :
                  localStorage'.stock_data[other] = localStorage.stock_data[other]]_vars
    /\ [][LoadsFreshlyCached =>
            /\ page'.stockData = getCachedStockData(localStorage, now, page'.selectedStock)
            /\ page'.isCached
            /\ StartedByLoad(page') = StartedByLoad(page)]_vars

\* a series fetched during this visit is shown from the cache, for the
\* selected symbol, half an hour after it was stored
C30_ShownFromCache ==
    /\ page.mounted
    /\ page.isCached
    /\ page.stockData.symbol = page.selectedStock
    /\ page.stockData.generatedAt >= FirstTick
    /\ now = page.stockData.generatedAt + 1
    /\ Len(page.loads) = 0

=============================================================================
